---- MODULE Spec2Model ----
(***************************************************************************)
(* Model of the import pipeline of univer-file-import (src/fileImport.ts): *)
(* the cell/style/document mapper of importExcelWithImages and the pure    *)
(* helpers of the package-level extractors (range merging, pivot location  *)
(* adjustment, number-format classification, theme colour resolution).     *)
(*                                                                         *)
(* Text conventions.  A column name is a sequence of letter codes 1..26    *)
(* (A = 1); a run of decimal digits is a sequence over 0..9; a number      *)
(* format pattern and a formula text are sequences of one-character        *)
(* strings; a hex colour is a sequence of hex digits 0..15.                *)
(***************************************************************************)
EXTENDS Integers, Sequences, FiniteSets, TLC

VARIABLES
    \* ---- mergeChartDataRanges ----
    ranges,          \* input: list of references found in a chart part
    dataRange,       \* output of mergeChartDataRanges, NotRun before the call
    \* ---- parsePivotTablesFromXlsx, one pivot table part ----
    pivotTableXml,   \* input: the fields of one pivotTableDefinition part
    pivotTable,      \* output record, NotRun before the call
    \* ---- convertNumFormat ----
    numFmt,          \* input pattern
    formatResult,    \* output, NotRun before the call
    \* ---- parseExcelColor ----
    color,           \* input colour object
    resolved         \* output, NotRun before the call

chartVars == <<ranges, dataRange>>
pivotVars == <<pivotTableXml, pivotTable>>
fmtVars   == <<numFmt, formatResult>>
colorVars == <<color, resolved>>

VARIABLES
    pc,                \* "load", "sheets", "sheet", "done", "failed"; "idle" when not in use
    workbook,          \* input: what workbook.xlsx.load produces
    idCounter,         \* number of ids nanoid has issued
    univerWorkbook,    \* the snapshot under construction
    sheetIndex,        \* position of forEach in workbook.worksheets, 0-based
    sheetKey,          \* id of the sheet being mapped
    cellIndex,         \* position of the cell walk in the worksheet's cells, 1-based
    mergeIndex,        \* position of the merge walk, 1-based
    cellData, mergeData, maxRow, maxCol,
    allImages,
    sheetNameToIdMap, sheetIndexToIdMap,
    importResult             \* what importExcelWithImages returns, NotRun before

mapperVars == <<pc, workbook, idCounter, univerWorkbook, sheetIndex, sheetKey, cellIndex,
                mergeIndex, cellData, mergeData, maxRow, maxCol, allImages,
                sheetNameToIdMap, sheetIndexToIdMap, importResult>>

VARIABLES
    \* ---- importFile: its arguments ----
    fileName,          \* input: file.name, the list of its parts between the dots
    includeImages,     \* input: options.includeImages
    archive,           \* input: the package of the file as JSZip reads it
    \* ---- importExcelWithImages: the collectors returned with the snapshot ----
    allConditionalFormats, allFilters, allSorts, allCharts,
    pivotTables,       \* parsePivotTablesFromXlsx: its result, returned as it is
    rejection,         \* the error importFile rejected with, NotRun before
    \* ---- the package-level extractors ----
    entryIndex,        \* position of the running extractor's loop, 1-based
    sheetDrawingMap,   \* parseChartsFromXlsx: the list of [sheetName, drawingPath]
    charts,            \* parseChartsFromXlsx: its result under construction
    cacheMap,     \* parsePivotTablesFromXlsx: cacheId -> source of the cache
    sorts,             \* parseSortsFromXlsx: its result under construction
    started,           \* the extractors called so far, in the order of the calls
    \* ---- the event loop: a second call, suspended at one of its awaits ----
    resumedAt,         \* idCounter when the running call was resumed
    issued,            \* the numbers nanoid gave the running call before that
    suspended,         \* the local state of the call that is not running, or NotRun
    reference          \* the result of an earlier call that ran on its own, or NotRun

inputVars     == <<fileName, includeImages, archive>>
collectorVars == <<allConditionalFormats, allFilters, allSorts, allCharts, pivotTables>>
extractorVars == <<entryIndex, sheetDrawingMap, charts, cacheMap, sorts, started>>
loopVars      == <<resumedAt, issued, suspended, reference>>
importVars    == <<inputVars, collectorVars, rejection, extractorVars, loopVars>>

VARIABLES
    \* ---- the Date Engine ----
    timeZone,        \* minutes the local time is ahead of UTC
    date,            \* input of dateToExcelSerial, NotRun before the call
    serial,          \* the serial number it returned
    restored,        \* output of excelSerialToDate(serial), NotRun before the call
    formatCall,      \* the last call of formatDateByPattern: its arguments and its result
    parseCall        \* the last call of parseDateString: its argument and its result

dateVars == <<timeZone, date, serial, restored, formatCall, parseCall>>

VARIABLES
    \* ---- addImagesToWorkbook / insertImagesAfterImport ----
    importedImages,  \* input: the images argument
    options,         \* input: continueOnError (None when not given) and onProgress
    fWorkbook,       \* input: univerAPI.getActiveWorkbook() gives a workbook
    imageIndex,      \* i of the for loop
    insertResult,    \* result: success, failed, errors
    progressCalls,   \* the calls of options.onProgress made so far, as [current, total]
    attempted,       \* the indices of the images whose insertion was tried, in order
    insertPc         \* "idle", "call", "loop", "returned", "rejected"

imageVars == <<importedImages, options, fWorkbook, imageIndex, insertResult, progressCalls,
               attempted, insertPc>>

VARIABLES
    \* ---- clipRangeToBounds ----
    rangeStr,        \* input: the range text
    maxRows,         \* input: the number of rows of the sheet
    maxCols,         \* input: the number of columns of the sheet
    clippedRange     \* output, NotRun before the call

clipVars == <<rangeStr, maxRows, maxCols, clippedRange>>

VARIABLES
    \* ---- addPivotTablesToWorkbook ----
    importedPivotTables, \* input: the pivotTables argument, with what the host does for each
    addPc,           \* "idle", "loop", "create", "listen", "adding", "returned"
    tableIndex,      \* position of the for loop, 1-based
    fieldIndex,      \* position of the listener in the fields it adds, 1-based
    addedFields,     \* the calls of addField that resolved, in order
    requested,       \* the tables addPivotTable was called for
    rendered,        \* table -> how often the host fired PivotTableRendered for it
    disposeCalls,    \* table -> how often its listener's dispose was called
    timeoutArmed,    \* the timer of the pending promise is set and not cleared
    successCount

hostVars == <<importedPivotTables, addPc, tableIndex, fieldIndex, addedFields, requested,
              rendered, disposeCalls, timeoutArmed, successCount>>
facadeVars == <<clipVars, hostVars>>

vars == <<chartVars, pivotVars, fmtVars, colorVars, mapperVars, importVars, dateVars,
          imageVars, facadeVars>>

NotRun    == [form |-> "notrun"]
Undefined == [form |-> "undefined"]
Null      == [form |-> "null"]

Min2(a, b) == IF a <= b THEN a ELSE b
Max2(a, b) == IF a >= b THEN a ELSE b

(***************************************************************************)
(* Bounds                                                                  *)
(***************************************************************************)
MaxRanges == 2      \* longest list of chart references

(***************************************************************************)
(* Decimal and column-letter conversions                                   *)
(***************************************************************************)
RECURSIVE parseInt(_)
\* parseInt(digits, 10) of a non-empty run of decimal digits
parseInt(ds) ==
    IF Len(ds) = 0 THEN 0
    ELSE parseInt(SubSeq(ds, 1, Len(ds) - 1)) * 10 + ds[Len(ds)]

RECURSIVE numberToString(_)
\* `${n}` for a non-negative integer: canonical decimal digits
numberToString(n) ==
    IF n < 10 THEN <<n>>
    ELSE numberToString(n \div 10) \o <<n % 10>>

RECURSIVE colToNum1(_)
\* the local colToNum of parseExcelRange: A=1, B=2, ..., AA=27
colToNum1(col) ==
    IF Len(col) = 0 THEN 0
    ELSE colToNum1(SubSeq(col, 1, Len(col) - 1)) * 26 + col[Len(col)]

\* the module-level colToNum: A -> 0, B -> 1, Z -> 25, AA -> 26
colToNum(col) == colToNum1(col) - 1

RECURSIVE numToCol(_)
numToCol(num) ==
    IF num > 0
    THEN numToCol((num - 1) \div 26) \o <<((num - 1) % 26) + 1>>
    ELSE <<>>

(***************************************************************************)
(* Chart references.  A reference "Sheet1!$A$1:$D$6" is the record         *)
(* [kind |-> "range", sheet, startCol, startRow, endCol, endRow]; a single *)
(* cell "Sheet1!$A$1" has kind "cell"; a whole-column reference            *)
(* "Sheet1!$A:$B" has kind "cols" and carries no row digits.               *)
(***************************************************************************)
SampleCols == {<<1>>, <<2>>, <<4>>}                \* A, B, D
WideCols   == SampleCols \cup {<<1, 1>>}           \* and AA
SampleRows == {<<1>>, <<6>>}                       \* "1", "6"
NoDigits   == <<>>

CellRefs ==
    {[kind |-> "cell", sheet |-> "Sheet1", startCol |-> c, startRow |-> r,
      endCol |-> c, endRow |-> r] : c \in WideCols, r \in SampleRows}
RangeRefs ==
    {[kind |-> "range", sheet |-> "Sheet1", startCol |-> c1, startRow |-> r1,
      endCol |-> c2, endRow |-> r2] :
        c1 \in SampleCols, r1 \in SampleRows, c2 \in SampleCols, r2 \in SampleRows}
ColsRefs ==
    {[kind |-> "cols", sheet |-> "Sheet1", startCol |-> c, startRow |-> NoDigits,
      endCol |-> c, endRow |-> NoDigits] : c \in {<<1>>, <<2>>}}
References == CellRefs \cup RangeRefs \cup ColsRefs

\* parseExcelRange with the end corner dropped: every reference is read as its
\* start cell
parseExcelRangeStartOnly(range) ==
    IF range.kind \notin {"cell", "range"} THEN Null
    ELSE [form      |-> "parsed",
          sheetName |-> range.sheet,
          startCol  |-> colToNum1(range.startCol),
          startRow  |-> parseInt(range.startRow),
          endCol    |-> colToNum1(range.startCol),
          endRow    |-> parseInt(range.startRow)]

\* the regular expression of parseExcelRange matches cells and cell ranges only
parseExcelRange(range) ==
    IF range.kind \notin {"cell", "range"} THEN Null
    ELSE [form      |-> "parsed",
          sheetName |-> range.sheet,
          startCol  |-> colToNum1(range.startCol),
          startRow  |-> parseInt(range.startRow),
          endCol    |-> colToNum1(IF range.kind = "range" THEN range.endCol
                                  ELSE range.startCol),
          endRow    |-> IF range.kind = "range" THEN parseInt(range.endRow)
                        ELSE parseInt(range.startRow)]

\* The loop of mergeChartDataRanges.  acc.any = FALSE stands for the initial
\* minCol = minRow = Infinity, maxCol = maxRow = -Infinity.
RECURSIVE mergeLoop(_, _, _)
mergeLoop(rs, i, acc) ==
    IF i > Len(rs) THEN acc
    ELSE LET parsed == parseExcelRange(rs[i]) IN
         IF parsed = Null THEN mergeLoop(rs, i + 1, acc)
         ELSE IF ~acc.any
         THEN mergeLoop(rs, i + 1,
                [any    |-> TRUE,
                 minCol |-> Min2(parsed.startCol, parsed.endCol),
                 minRow |-> Min2(parsed.startRow, parsed.endRow),
                 maxCol |-> Max2(parsed.startCol, parsed.endCol),
                 maxRow |-> Max2(parsed.startRow, parsed.endRow)])
         ELSE mergeLoop(rs, i + 1,
                [any    |-> TRUE,
                 minCol |-> Min2(acc.minCol, Min2(parsed.startCol, parsed.endCol)),
                 minRow |-> Min2(acc.minRow, Min2(parsed.startRow, parsed.endRow)),
                 maxCol |-> Max2(acc.maxCol, Max2(parsed.startCol, parsed.endCol)),
                 maxRow |-> Max2(acc.maxRow, Max2(parsed.startRow, parsed.endRow))])

\* result: the empty string, the first reference returned as it stands, or
\* the text `${numToCol(minCol)}${minRow}:${numToCol(maxCol)}${maxRow}`
mergeChartDataRanges(rs) ==
    IF Len(rs) = 0 THEN [form |-> "empty"]
    ELSE LET acc == mergeLoop(rs, 1,
                      [any |-> FALSE, minCol |-> 0, minRow |-> 0,
                       maxCol |-> 0, maxRow |-> 0]) IN
         IF ~acc.any THEN [form |-> "raw", ref |-> rs[1]]
         ELSE [form     |-> "a1",
               startCol |-> numToCol(acc.minCol),
               startRow |-> numberToString(acc.minRow),
               endCol   |-> numToCol(acc.maxCol),
               endRow   |-> numberToString(acc.maxRow)]

RangeLists == UNION {[1..n -> References] : n \in 0..MaxRanges}

(***************************************************************************)
(* One pivot table part, as parsePivotTablesFromXlsx reads it.  The part   *)
(* is the record of what the regular expressions extract:                  *)
(*   location   [form |-> "none"], [form |-> "cell", col, row] or          *)
(*              [form |-> "range", col, row, endCol, endRow] (row digits)  *)
(*   cacheId    the cacheId attribute                                      *)
(*   rowFields, colFields   lists of x attributes (may be negative)        *)
(*   dataFields, pageFields lists of fld attributes                        *)
(* An absent <rowFields>, ... element reads as the empty list.             *)
(***************************************************************************)
MaxPageFields == 3      \* most <pageField> elements of one pivot table

\* the shift without the clamp at row 0
shiftUpUnclamped(row, filterRowCount) ==
    IF filterRowCount > 0 THEN row - filterRowCount ELSE row

\* anchorRow = Math.max(0, anchorRow - filterRowCount), only if filterRowCount > 0
shiftUp(row, filterRowCount) ==
    IF filterRowCount > 0 THEN Max2(0, row - filterRowCount) ELSE row

\* the entries of a field list that are kept: fieldIndex >= 0
RECURSIVE nonNegative(_)
nonNegative(xs) ==
    IF Len(xs) = 0 THEN <<>>
    ELSE IF Head(xs) >= 0 THEN <<Head(xs)>> \o nonNegative(Tail(xs))
    ELSE nonNegative(Tail(xs))

\* anchorRow, anchorCol and occupiedRange as read from <location ref=...>
locationOf(loc) ==
    IF loc.form = "range"
    THEN [anchorRow |-> parseInt(loc.row) - 1,
          anchorCol |-> colToNum(loc.col),
          occupiedRange |-> [form        |-> "range",
                             startRow    |-> parseInt(loc.row) - 1,
                             startColumn |-> colToNum(loc.col),
                             endRow      |-> parseInt(loc.endRow) - 1,
                             endColumn   |-> colToNum(loc.endCol)]]
    ELSE IF loc.form = "cell"
    THEN [anchorRow |-> parseInt(loc.row) - 1,
          anchorCol |-> colToNum(loc.col),
          occupiedRange |-> Undefined]
    ELSE [anchorRow |-> 0, anchorCol |-> 0, occupiedRange |-> Undefined]

\* The body of the loop over the pivot table parts of one sheet: Null when
\* the part is skipped (no cache definition for its cacheId).
parsePivotTablePart(xml, id, sheetId, sheetName, pivotCacheMap, nameToId) ==
    IF xml.cacheId \notin DOMAIN pivotCacheMap THEN Null
    ELSE LET at             == locationOf(xml.location)
             cacheInfo      == pivotCacheMap[xml.cacheId]
             filterFields   == xml.pageFields
             filterRowCount == Len(filterFields) * 2
         IN [form          |-> "pivot",
             pivotTableId  |-> id,
             sheetId       |-> sheetId,
             sheetName     |-> sheetName,
             sourceRange   |-> [sheetName   |-> cacheInfo.sourceSheetName,
                                sheetId     |-> IF cacheInfo.sourceSheetName \in DOMAIN nameToId
                                                THEN nameToId[cacheInfo.sourceSheetName]
                                                ELSE "undefined",
                                startRow    |-> cacheInfo.sourceRange.startRow,
                                startColumn |-> cacheInfo.sourceRange.startColumn,
                                endRow      |-> cacheInfo.sourceRange.endRow,
                                endColumn   |-> cacheInfo.sourceRange.endColumn],
             anchorCell    |-> [row |-> shiftUp(at.anchorRow, filterRowCount),
                                col |-> at.anchorCol],
             occupiedRange |-> IF at.occupiedRange = Undefined THEN Undefined
                               ELSE [at.occupiedRange EXCEPT
                                        !.startRow = shiftUp(@, filterRowCount)],
             fields        |-> [rowFields    |-> nonNegative(xml.rowFields),
                                colFields    |-> nonNegative(xml.colFields),
                                valueFields  |-> xml.dataFields,
                                filterFields |-> filterFields]]

PivotCols == {<<1>>, <<3>>}                       \* A, C
PivotRows == {<<1>>, <<3>>, <<1, 1>>}             \* "1", "3", "11"
PivotEnds == {<<1, 1>>, <<1, 5>>}                 \* "11", "15"
PivotLocations ==
    {[form |-> "none"]}
    \cup {[form |-> "cell", col |-> c, row |-> r] : c \in PivotCols, r \in PivotRows}
    \cup {[form |-> "range", col |-> c, row |-> r, endCol |-> <<3>>, endRow |-> e] :
            c \in PivotCols, r \in PivotRows, e \in PivotEnds}
FieldLists(n) == UNION {[1..k -> {0, 3}] : k \in 0..n}
PivotParts ==
    [location   : PivotLocations,
     cacheId    : {"1", "6"},
     rowFields  : {<<>>, <<0>>, <<-2, 1>>},
     colFields  : {<<>>},
     dataFields : {<<2>>},
     pageFields : FieldLists(MaxPageFields)]

\* the cache map and the registry the part is resolved against
SamplePivotCacheMap ==
    [c \in {"1"} |-> [sourceSheetName |-> "Data",
                      sourceRange |-> [startRow |-> 0, startColumn |-> 0,
                                       endRow |-> 5, endColumn |-> 3]]]
SampleNameToId == [n \in {"Data", "Pivot"} |-> IF n = "Data" THEN "sheet-1" ELSE "sheet-2"]

(***************************************************************************)
(* Number formats.  A pattern is a sequence of one-character strings; the  *)
(* characters outside ASCII are written <yen>, <euro>, <pound>, <nian>,    *)
(* <yue>, <ri>, and the double quote <quote>.                              *)
(***************************************************************************)
MaxFmtLen == 4      \* longest generated pattern (the sample patterns are longer)

UpperLetters == <<"A", "B", "C", "D", "E", "F", "G", "H", "I", "J", "K", "L", "M",
                  "N", "O", "P", "Q", "R", "S", "T", "U", "V", "W", "X", "Y", "Z">>
LowerLetters == <<"a", "b", "c", "d", "e", "f", "g", "h", "i", "j", "k", "l", "m",
                  "n", "o", "p", "q", "r", "s", "t", "u", "v", "w", "x", "y", "z">>

toLowerCase(str) ==
    [i \in 1..Len(str) |->
        IF \E k \in 1..26 : UpperLetters[k] = str[i]
        THEN LowerLetters[CHOOSE k \in 1..26 : UpperLetters[k] = str[i]]
        ELSE str[i]]

toUpperCase(str) ==
    [i \in 1..Len(str) |->
        IF \E k \in 1..26 : LowerLetters[k] = str[i]
        THEN UpperLetters[CHOOSE k \in 1..26 : LowerLetters[k] = str[i]]
        ELSE str[i]]

\* String.prototype.includes
includes(str, sub) ==
    \E i \in 1..(Len(str) - Len(sub) + 1) : SubSeq(str, i, i + Len(sub) - 1) = sub

Placeholders == {"0", "#", "?"}

\* length of the longest run of placeholder characters starting at position i
RECURSIVE runLength(_, _)
runLength(str, i) ==
    IF i <= Len(str) /\ str[i] \in Placeholders THEN 1 + runLength(str, i + 1) ELSE 0

\* a decimal match that counts only the 0 placeholders
decimalMatchZerosOnly(str) ==
    LET starts == {i \in 1..(Len(str) - 1) : str[i] = "." /\ str[i + 1] = "0"} IN
    IF starts = {} THEN 0
    ELSE LET first == CHOOSE i \in starts : \A j \in starts : i <= j IN
         Cardinality({j \in (first + 1)..(first + runLength(str, first + 1)) : str[j] = "0"})

\* numFmt.match(/\.([0#?]+)/): the leftmost "." that a placeholder follows, and
\* the length of the run of placeholders after it; 0 without a match
decimalMatch(str) ==
    LET starts == {i \in 1..(Len(str) - 1) :
                        str[i] = "." /\ str[i + 1] \in Placeholders} IN
    IF starts = {} THEN 0
    ELSE LET first == CHOOSE i \in starts : \A j \in starts : i <= j IN
         runLength(str, first + 1)

\* Object.assign(a, b) and { ...a, ...b }: the keys of b win
assign(a, b) ==
    [k \in DOMAIN a \cup DOMAIN b |-> IF k \in DOMAIN b THEN b[k] ELSE a[k]]

\* the object with the given keys, each set to v
flags(keys, v) == [k \in keys |-> v]

\* the builtInFormats table of parseNumFormat: pattern and predefined entry
builtInFormats ==
    { <<<<"G", "e", "n", "e", "r", "a", "l">>,
        [type |-> "general"]>>,
      <<<<"0">>,
        [type |-> "number", decimalPlaces |-> 0]>>,
      <<<<"0", ".", "0", "0">>,
        [type |-> "number", decimalPlaces |-> 2]>>,
      <<<<"#", ",", "#", "#", "0">>,
        [type |-> "number", decimalPlaces |-> 0, hasThousandsSeparator |-> TRUE]>>,
      <<<<"#", ",", "#", "#", "0", ".", "0", "0">>,
        [type |-> "number", decimalPlaces |-> 2, hasThousandsSeparator |-> TRUE]>>,
      <<<<"#", ",", "#", "#", "0", ".", "0">>,
        [type |-> "number", decimalPlaces |-> 1, hasThousandsSeparator |-> TRUE]>>,
      <<<<"#", ",", "#", "#", "0", ".", "0", "0", "0">>,
        [type |-> "number", decimalPlaces |-> 3, hasThousandsSeparator |-> TRUE]>>,
      <<<<"#", ",", "#", "#", "0", ".", "0", "0", "0", "0">>,
        [type |-> "number", decimalPlaces |-> 4, hasThousandsSeparator |-> TRUE]>>,
      <<<<"0", ".", "0">>,
        [type |-> "number", decimalPlaces |-> 1]>>,
      <<<<"0", ".", "0", "0", "0">>,
        [type |-> "number", decimalPlaces |-> 3]>>,
      <<<<"0", ".", "0", "0", "0", "0">>,
        [type |-> "number", decimalPlaces |-> 4]>>,
      <<<<"0", "%">>,
        [type |-> "percent", decimalPlaces |-> 0, isPercent |-> TRUE]>>,
      <<<<"0", ".", "0", "%">>,
        [type |-> "percent", decimalPlaces |-> 1, isPercent |-> TRUE]>>,
      <<<<"0", ".", "0", "0", "%">>,
        [type |-> "percent", decimalPlaces |-> 2, isPercent |-> TRUE]>>,
      <<<<"0", ".", "0", "0", "0", "%">>,
        [type |-> "percent", decimalPlaces |-> 3, isPercent |-> TRUE]>>,
      <<<<"0", ".", "0", "0", "E", "+", "0", "0">>,
        [type |-> "scientific", decimalPlaces |-> 2, isScientific |-> TRUE]>>,
      <<<<"#", "#", "0", ".", "0", "E", "+", "0">>,
        [type |-> "scientific", decimalPlaces |-> 1, isScientific |-> TRUE]>>,
      <<<<"<yen>", "#", ",", "#", "#", "0">>,
        [type |-> "currency", decimalPlaces |-> 0, isCurrency |-> TRUE, currencySymbol |-> "<yen>"]>>,
      <<<<"<yen>", "#", ",", "#", "#", "0", ".", "0", "0">>,
        [type |-> "currency", decimalPlaces |-> 2, isCurrency |-> TRUE, currencySymbol |-> "<yen>"]>>,
      <<<<"<quote>", "<yen>", "<quote>", "#", ",", "#", "#", "0">>,
        [type |-> "currency", decimalPlaces |-> 0, isCurrency |-> TRUE, currencySymbol |-> "<yen>"]>>,
      <<<<"<quote>", "<yen>", "<quote>", "#", ",", "#", "#", "0", ".", "0", "0">>,
        [type |-> "currency", decimalPlaces |-> 2, isCurrency |-> TRUE, currencySymbol |-> "<yen>"]>>,
      <<<<"$", "#", ",", "#", "#", "0">>,
        [type |-> "currency", decimalPlaces |-> 0, isCurrency |-> TRUE, currencySymbol |-> "$"]>>,
      <<<<"$", "#", ",", "#", "#", "0", ".", "0", "0">>,
        [type |-> "currency", decimalPlaces |-> 2, isCurrency |-> TRUE, currencySymbol |-> "$"]>>,
      <<<<"<quote>", "$", "<quote>", "#", ",", "#", "#", "0">>,
        [type |-> "currency", decimalPlaces |-> 0, isCurrency |-> TRUE, currencySymbol |-> "$"]>>,
      <<<<"<quote>", "$", "<quote>", "#", ",", "#", "#", "0", ".", "0", "0">>,
        [type |-> "currency", decimalPlaces |-> 2, isCurrency |-> TRUE, currencySymbol |-> "$"]>>,
      <<<<"_", "-", "<yen>", "*", " ", "#", ",", "#", "#", "0", "_", "-">>,
        [type |-> "accounting", decimalPlaces |-> 0, isCurrency |-> TRUE, currencySymbol |-> "<yen>"]>>,
      <<<<"_", "-", "<yen>", "*", " ", "#", ",", "#", "#", "0", ".", "0", "0", "_", "-">>,
        [type |-> "accounting", decimalPlaces |-> 2, isCurrency |-> TRUE, currencySymbol |-> "<yen>"]>>,
      <<<<"y", "y", "y", "y", "-", "m", "m", "-", "d", "d">>,
        [type |-> "date", isDateTime |-> TRUE]>>,
      <<<<"y", "y", "y", "y", "/", "m", "m", "/", "d", "d">>,
        [type |-> "date", isDateTime |-> TRUE]>>,
      <<<<"y", "y", "y", "y", "<nian>", "m", "<yue>", "d", "<ri>">>,
        [type |-> "date", isDateTime |-> TRUE]>>,
      <<<<"m", "m", "-", "d", "d", "-", "y", "y">>,
        [type |-> "date", isDateTime |-> TRUE]>>,
      <<<<"m", "/", "d", "/", "y", "y">>,
        [type |-> "date", isDateTime |-> TRUE]>>,
      <<<<"d", "-", "m", "m", "m", "-", "y", "y">>,
        [type |-> "date", isDateTime |-> TRUE]>>,
      <<<<"d", "-", "m", "m", "m">>,
        [type |-> "date", isDateTime |-> TRUE]>>,
      <<<<"m", "m", "m", "-", "y", "y">>,
        [type |-> "date", isDateTime |-> TRUE]>>,
      <<<<"h", ":", "m", "m">>,
        [type |-> "time", isDateTime |-> TRUE]>>,
      <<<<"h", ":", "m", "m", ":", "s", "s">>,
        [type |-> "time", isDateTime |-> TRUE]>>,
      <<<<"h", ":", "m", "m", " ", "A", "M", "/", "P", "M">>,
        [type |-> "time", isDateTime |-> TRUE]>>,
      <<<<"h", ":", "m", "m", ":", "s", "s", " ", "A", "M", "/", "P", "M">>,
        [type |-> "time", isDateTime |-> TRUE]>>,
      <<<<"y", "y", "y", "y", "-", "m", "m", "-", "d", "d", " ", "h", ":", "m", "m">>,
        [type |-> "datetime", isDateTime |-> TRUE]>>,
      <<<<"y", "y", "y", "y", "-", "m", "m", "-", "d", "d", " ", "h", ":", "m", "m", ":", "s", "s">>,
        [type |-> "datetime", isDateTime |-> TRUE]>>,
      <<<<"m", "/", "d", "/", "y", "y", " ", "h", ":", "m", "m">>,
        [type |-> "datetime", isDateTime |-> TRUE]>>,
      <<<<"@">>,
        [type |-> "text"]>> }

dateTimePatterns == { <<"y", "y", "y", "y">>, <<"y", "y">>, <<"m", "m">>, <<"d", "d">>,
                      <<"h", "h">>, <<"s", "s">>,
                      <<"A", "M", "/", "P", "M">>, <<"a", "m", "/", "p", "m">> }

\* the flags parseNumFormat sets; a flag that does not apply is not set at all
parseNumFormat(fmt) ==
    LET result ==
          assign(
            flags({k \in {"isPercent", "isCurrency", "isScientific",
                          "hasThousandsSeparator", "isDateTime", "hasNegativeFormat"} :
                     \/ k = "isPercent" /\ includes(fmt, <<"%">>)
                     \/ k = "isCurrency" /\ \E c \in {"$", "<yen>", "<euro>", "<pound>"} :
                                                includes(fmt, <<c>>)
                     \/ k = "isScientific" /\ (\/ includes(toUpperCase(fmt), <<"E", "+">>)
                                                \/ includes(toUpperCase(fmt), <<"E", "-">>))
                     \/ k = "hasThousandsSeparator" /\ includes(fmt, <<",">>)
                     \/ k = "isDateTime" /\ \E pat \in dateTimePatterns :
                                                includes(toLowerCase(fmt), toLowerCase(pat))
                     \/ k = "hasNegativeFormat" /\
                            (\/ includes(fmt, <<"[", "R", "e", "d", "]">>)
                             \/ includes(fmt, <<"(">>) /\ includes(fmt, <<")">>))},
                  TRUE),
            flags({"decimalPlaces"}, decimalMatch(fmt)))
    IN IF \E b \in builtInFormats : b[1] = fmt
       THEN assign((CHOOSE b \in builtInFormats : b[1] = fmt)[2], result)
       ELSE result

General == <<"G", "e", "n", "e", "r", "a", "l">>

convertNumFormat(fmt) ==
    IF fmt = <<>> \/ fmt = General THEN Undefined
    ELSE assign(flags({"pattern"}, fmt), parseNumFormat(fmt))

FmtChars == {"0", "#", ".", ",", "%", "y"}
SampleFormats ==
    { General,
      <<"#", ",", "#", "#", "0", ".", "0", "0">>,
      <<"0", ".", "0", "0", "%">>,
      <<"0", ".", "0", "0", "E", "+", "0", "0">>,
      <<"y", "y", "y", "y", "-", "m", "m", "-", "d", "d">>,
      <<"$", "#", ",", "#", "#", "0", ".", "0", "0">>,
      <<"#", ",", "#", "#", "0", ".", "0", "?", "_", ")", ";",
        "[", "R", "e", "d", "]", "(", "#", ",", "#", "#", "0", ".", "0", ")">>,
      <<"d", ".", "m", ".", "y", "y", "y", "y">>,
      <<"@">> }
Patterns == SampleFormats \cup UNION {[1..n -> FmtChars] : n \in 0..MaxFmtLen}

(***************************************************************************)
(* Colours.  "#RRGGBB" is the record [form |-> "color", digits |-> d] with *)
(* d the six hex digits as numbers 0..15 (the letter case of the text is   *)
(* not kept).  A tint is the numerator of a fraction over TintDen, so that *)
(* every product below is exact; a channel under computation is likewise  *)
(* a numerator over TintDen.  An optional property is None or Some(v).     *)
(***************************************************************************)
TintDen == 4        \* tints are the multiples of 1/TintDen

None    == <<>>
Some(v) == <<v>>

EXCEL_THEME_COLORS ==
    [t \in 0..9 |->
        CASE t = 0 -> <<15, 15, 15, 15, 15, 15>>
          [] t = 1 -> <<0, 0, 0, 0, 0, 0>>
          [] t = 2 -> <<14, 7, 14, 6, 14, 6>>
          [] t = 3 -> <<4, 4, 5, 4, 6, 10>>
          [] t = 4 -> <<4, 4, 7, 2, 12, 4>>
          [] t = 5 -> <<14, 13, 7, 13, 3, 1>>
          [] t = 6 -> <<10, 5, 10, 5, 10, 5>>
          [] t = 7 -> <<15, 15, 12, 0, 0, 0>>
          [] t = 8 -> <<5, 11, 9, 11, 13, 5>>
          [] t = 9 -> <<7, 0, 10, 13, 4, 7>>]

INDEXED_COLORS ==
    [i \in {0, 1, 2, 3, 4, 5, 6, 7, 8, 9, 64, 65} |->
        CASE i = 0 -> <<0, 0, 0, 0, 0, 0>>
          [] i = 1 -> <<15, 15, 15, 15, 15, 15>>
          [] i = 2 -> <<15, 15, 0, 0, 0, 0>>
          [] i = 3 -> <<0, 0, 15, 15, 0, 0>>
          [] i = 4 -> <<0, 0, 0, 0, 15, 15>>
          [] i = 5 -> <<15, 15, 15, 15, 0, 0>>
          [] i = 6 -> <<15, 15, 0, 0, 15, 15>>
          [] i = 7 -> <<0, 0, 15, 15, 15, 15>>
          [] i = 8 -> <<0, 0, 0, 0, 0, 0>>
          [] i = 9 -> <<15, 15, 15, 15, 15, 15>>
          [] i = 64 -> <<0, 0, 0, 0, 0, 0>>
          [] i = 65 -> <<15, 15, 15, 15, 15, 15>>]

\* parseInt(pair, 16) of two hex digits
hexPair(d, i) == d[i] * 16 + d[i + 1]

hexToRgb(hex) == [r |-> hexPair(hex, 1), g |-> hexPair(hex, 3), b |-> hexPair(hex, 5)]

\* rounding toward zero in place of Math.round
MathRoundDown(num) == num \div TintDen

\* Math.round of num / TintDen, for num >= 0
MathRound(num) == (2 * num + TintDen) \div (2 * TintDen)

\* Math.round(Math.max(0, Math.min(255, x))).toString(16), padded to two digits
channelToHex(num) ==
    LET v == MathRound(Max2(0, Min2(255 * TintDen, num))) IN <<v \div 16, v % 16>>

rgbToHex(r, g, b) ==
    [form |-> "color", digits |-> channelToHex(r) \o channelToHex(g) \o channelToHex(b)]

applyTint(hex, tint) ==
    LET rgb == hexToRgb(hex) IN
    IF tint < 0
    THEN rgbToHex(rgb.r * (TintDen + tint), rgb.g * (TintDen + tint),
                  rgb.b * (TintDen + tint))
    ELSE rgbToHex(rgb.r * TintDen + (255 - rgb.r) * tint,
                  rgb.g * TintDen + (255 - rgb.g) * tint,
                  rgb.b * TintDen + (255 - rgb.b) * tint)

\* `#${color.argb.slice(-6)}`
lastSix(str) == SubSeq(str, Len(str) - 5, Len(str))

parseExcelColor(c) ==
    IF c = Null THEN Null
    ELSE IF c.argb # None /\ c.argb[1] # <<>>
    THEN [form |-> "color", digits |-> lastSix(c.argb[1])]
    ELSE IF c.theme # None /\ c.theme[1] \in DOMAIN EXCEL_THEME_COLORS
    THEN IF c.tint # None /\ c.tint[1] # 0
         THEN applyTint(EXCEL_THEME_COLORS[c.theme[1]], c.tint[1])
         ELSE [form |-> "color", digits |-> EXCEL_THEME_COLORS[c.theme[1]]]
    ELSE IF c.indexed # None
    THEN IF c.indexed[1] \in DOMAIN INDEXED_COLORS
         THEN [form |-> "color", digits |-> INDEXED_COLORS[c.indexed[1]]]
         ELSE Null
    ELSE Null

Tints  == (0 - TintDen - 1)..(TintDen + 1)
Colors ==
    {Null} \cup
    [argb    : {None, Some(<<15, 15, 1, 2, 3, 4, 5, 6>>)},
     theme   : {None} \cup {Some(t) : t \in 0..10},
     tint    : {None} \cup {Some(n) : n \in Tints},
     indexed : {None, Some(2), Some(30)}]

(***************************************************************************)
(* Source cells, as the workbook reader hands them to the mapper.          *)
(*                                                                         *)
(* A JavaScript value is a record tagged by t:                             *)
(*   undefined, null, number (an integer), nan, infinity (both of type     *)
(*   number), string, boolean, date (valid or not), error (the object      *)
(*   {error}), formula (the object {formula | sharedFormula, result?}),    *)
(*   richText (text: the runs joined; styled: some run has a font),        *)
(*   hyperlink (text, hyperlink).                                          *)
(* A formula text is a sequence of tokens, "=" being a token of its own.   *)
(***************************************************************************)
JsUndefined == [t |-> "undefined"]
JsNull      == [t |-> "null"]
JsNaN       == [t |-> "nan"]
JsInfinity  == [t |-> "infinity"]
JsNumber(n)  == [t |-> "number", num |-> n]
JsString(x)  == [t |-> "string", str |-> x]
JsBoolean(b) == [t |-> "boolean", bool |-> b]
JsDate(ok)   == [t |-> "date", valid |-> ok]
JsError(e)   == [t |-> "error", error |-> e]
\* the value object of a formula cell; the result key is there when r is defined
JsFormula(shared, text, r) == [t |-> "formula", shared |-> shared, text |-> text, result |-> r]
JsRichText(text, styled)   == [t |-> "richText", text |-> text, styled |-> styled]
JsHyperlink(text, url)     == [t |-> "hyperlink", text |-> text, hyperlink |-> url]

typeof(x) ==
    CASE x.t \in {"number", "nan", "infinity"} -> "number"
      [] x.t = "string"    -> "string"
      [] x.t = "boolean"   -> "boolean"
      [] x.t = "undefined" -> "undefined"
      [] OTHER             -> "object"

\* isNaN(x) || !isFinite(x) for a value of type number
notFinite(x) == x.t \in {"nan", "infinity"}

\* the sample strings that contain the text NaN
StringsWithNaN == {"NaN", "BaNaNa"}
includesNaN(x) == x.str \in StringsWithNaN

EmptyString == JsString("")

(***************************************************************************)
(* Styles.  A source style is the record                                   *)
(*   [font, fill, alignment, border, numFmt], each None or Some(...)       *)
(* and a converted style is a function from the keys that are set          *)
(* (bl, it, ul, st, fs, ff, cl, bg, ht, vt, tb, bd, n) to their values.    *)
(***************************************************************************)
Empty == [k \in {} |-> TRUE]      \* the object {}

styleMap(style) ==
    CASE style = "thin" -> 1 [] style = "medium" -> 2 [] style = "thick" -> 3
      [] style = "dotted" -> 4 [] style = "dashed" -> 5 [] style = "double" -> 6
      [] style = "hair" -> 7 [] style = "mediumDashed" -> 8 [] style = "dashDot" -> 9
      [] style = "mediumDashDot" -> 10 [] style = "dashDotDot" -> 11
      [] style = "mediumDashDotDot" -> 12 [] style = "slantDashDot" -> 13
      [] OTHER -> 1

Black == [form |-> "color", digits |-> <<0, 0, 0, 0, 0, 0>>]

\* border: [style : None or Some(name), color : None or Some(colour object)]
convertSingleBorder(border) ==
    [s  |-> IF border.style # None THEN styleMap(border.style[1]) ELSE 1,
     cl |-> [rgb |-> IF border.color # None /\ parseExcelColor(border.color[1]) # Null
                     THEN parseExcelColor(border.color[1]) ELSE Black]]

Edges == {"top", "bottom", "left", "right"}
edgeKey(e) == CASE e = "top" -> "t" [] e = "bottom" -> "b" [] e = "left" -> "l" [] e = "right" -> "r"

\* border: a function from the edges that are set to their border
convertBorder(border) ==
    IF DOMAIN border = {} THEN Undefined
    ELSE [k \in {edgeKey(e) : e \in DOMAIN border} |->
            convertSingleBorder(border[CHOOSE e \in DOMAIN border : edgeKey(e) = k])]

convertAlignment(a) ==
    CASE a = "left" -> 1 [] a = "center" -> 2 [] a = "right" -> 3 [] OTHER -> 1

convertVerticalAlignment(a) ==
    CASE a = "top" -> 1 [] a = "middle" -> 2 [] a = "bottom" -> 3 [] OTHER -> 2

\* the keys convertCellStyle sets for the font
fontStyle(font) ==
    LET cl == IF font.color # None THEN parseExcelColor(font.color[1]) ELSE Null IN
    [k \in {k \in {"bl", "it", "ul", "st", "fs", "ff", "cl"} :
              \/ k = "bl" /\ font.bold
              \/ k = "it" /\ font.italic
              \/ k = "ul" /\ font.underline
              \/ k = "st" /\ font.strike
              \/ k = "fs" /\ font.size # 0
              \/ k = "ff" /\ font.name # ""
              \/ k = "cl" /\ cl # Null} |->
        CASE k \in {"bl", "it"} -> 1
          [] k \in {"ul", "st"} -> [s |-> 1]
          [] k = "fs" -> font.size
          [] k = "ff" -> font.name
          [] k = "cl" -> [rgb |-> cl]]

fillStyle(fill) ==
    IF fill.type = "pattern" /\ fill.fgColor # None /\ parseExcelColor(fill.fgColor[1]) # Null
    THEN flags({"bg"}, [rgb |-> parseExcelColor(fill.fgColor[1])])
    ELSE Empty

alignmentStyle(al) ==
    [k \in {k \in {"ht", "vt", "tb"} :
              \/ k = "ht" /\ al.horizontal # ""
              \/ k = "vt" /\ al.vertical # ""
              \/ k = "tb" /\ al.wrapText} |->
        CASE k = "ht" -> convertAlignment(al.horizontal)
          [] k = "vt" -> convertVerticalAlignment(al.vertical)
          [] k = "tb" -> 3]

convertCellStyle(style) ==
    LET univerStyle ==
          assign(assign(assign(assign(
            IF style.font # None THEN fontStyle(style.font[1]) ELSE Empty,
            IF style.fill # None THEN fillStyle(style.fill[1]) ELSE Empty),
            IF style.alignment # None THEN alignmentStyle(style.alignment[1]) ELSE Empty),
            IF style.border # None /\ convertBorder(style.border[1]) # Undefined
            THEN flags({"bd"}, convertBorder(style.border[1])) ELSE Empty),
            IF style.numFmt # None /\ convertNumFormat(style.numFmt[1]) # Undefined
            THEN flags({"n"}, convertNumFormat(style.numFmt[1])) ELSE Empty)
    IN IF DOMAIN univerStyle = {} THEN Undefined ELSE univerStyle

(***************************************************************************)
(* Value resolution of one cell.  A source cell is the record              *)
(*   [type, value, formula, result, style]                                 *)
(* where formula is what cell.formula yields: [shape |-> "none"], a text   *)
(* [shape |-> "string", text], or one of the object shapes the mapper      *)
(* provides for, {sharedFormula: text} ("shared") and {formula: text,      *)
(* result} ("array").                                                      *)
(* The Date Engine is kept abstract here: a date that formats yields the   *)
(* text DateText, whatever the pattern.                                    *)
(***************************************************************************)
DateText    == JsString("2024/1/15")
InvalidDate == JsString("Invalid Date")

dateKeywords ==
    { <<"y", "y", "y", "y">>, <<"y", "y">>, <<"m", "m">>, <<"d", "d">>, <<"m", "/", "d">>,
      <<"d", "/", "m">>, <<"h", ":", "m", "m">>, <<"h", "h", ":", "m", "m">>, <<"s", "s">>,
      <<"<nian>">>, <<"<yue>">>, <<"<ri>">>, <<"A", "M", "/", "P", "M">>,
      <<"a", "m", "/", "p", "m">>, <<"<shang>", "<wu>">>, <<"<xia>", "<wu>">>,
      <<"[", "$", "-">> }

dateFormatCodes == {14, 15, 16, 17, 18, 19, 20, 21, 22, 45, 46, 47,
                    176, 177, 178, 179, 180, 181, 182}

Digits == <<"0", "1", "2", "3", "4", "5", "6", "7", "8", "9">>
isDigit(c) == \E d \in 1..10 : Digits[d] = c
digitOf(c) == (CHOOSE d \in 1..10 : Digits[d] = c) - 1

\* parseInt(str, 10): the leading run of digits, -1 standing for NaN
RECURSIVE leadingInt(_, _, _)
leadingInt(str, i, acc) ==
    IF i <= Len(str) /\ isDigit(str[i]) THEN leadingInt(str, i + 1, acc * 10 + digitOf(str[i]))
    ELSE IF i = 1 THEN -1 ELSE acc

isDateFormat(fmt) ==
    IF fmt = <<>> \/ fmt = General THEN FALSE
    ELSE \/ leadingInt(fmt, 1, 0) \in dateFormatCodes
         \/ \E keyword \in dateKeywords : includes(toLowerCase(fmt), toLowerCase(keyword))

\* cell.style?.numFmt is set and is a date format
hasDateFormat(cell) == cell.style.numFmt # None /\ isDateFormat(cell.style.numFmt[1])

\* the sample strings parseDateString reads as a date
DateStrings == {"2024-01-15"}

getCellValue(cell) ==
    CASE cell.type = "Formula" ->
            IF cell.result # JsUndefined THEN cell.result ELSE cell.value
      [] cell.type = "RichText" -> JsString(cell.value.text)
      [] cell.type = "Date" ->
            IF cell.value \in {JsNull, JsUndefined} THEN EmptyString
            ELSE IF cell.value.t = "date"
            THEN (IF cell.value.valid THEN DateText ELSE InvalidDate)
            ELSE IF cell.value.t = "number" /\ cell.value.num > 0 THEN DateText
            ELSE IF cell.value.t = "string" /\ cell.value.str # ""
            THEN (IF hasDateFormat(cell) /\ cell.value.str \in DateStrings
                  THEN DateText ELSE cell.value)
            ELSE cell.value
      [] cell.type = "Hyperlink" ->
            JsString(IF cell.value.text # "" THEN cell.value.text ELSE cell.value.hyperlink)
      [] cell.type = "Merge" -> EmptyString
      [] cell.type = "Error" -> cell.value
      [] cell.type = "Number" ->
            IF hasDateFormat(cell) /\ cell.value.t = "number" /\ cell.value.num > 0
            THEN DateText
            ELSE cell.value
      [] cell.type = "String" ->
            IF hasDateFormat(cell) /\ cell.value.str \in DateStrings THEN DateText
            ELSE cell.value
      [] OTHER -> cell.value

getOriginalCellValue(cell) ==
    LET value == cell.value IN
    CASE value \in {JsNull, JsUndefined} -> EmptyString
      [] value.t = "date" -> IF value.valid THEN DateText ELSE EmptyString
      [] typeof(value) = "number" -> IF notFinite(value) THEN EmptyString ELSE value
      [] typeof(value) \in {"string", "boolean"} -> value
      [] value.t = "richText" -> JsString(value.text)
      [] value.t = "hyperlink" ->
            JsString(IF value.text # "" THEN value.text ELSE value.hyperlink)
      [] value.t = "formula" /\ value.result \notin {JsUndefined, JsNull} ->
            IF value.result.t = "date" THEN DateText ELSE value.result
      \* String(value) of any other object is "[object Object]"
      [] OTHER -> EmptyString

isBlank(x) == x \in {JsNull, JsUndefined, EmptyString}

\* 3 boolean, 2 number, 1 string, 0 standing for null
getCellType(cell, actualValue) ==
    IF ~isBlank(actualValue) /\ typeof(actualValue) \in {"boolean", "number", "string"}
    THEN CASE typeof(actualValue) = "boolean" -> 3
           [] typeof(actualValue) = "number"  -> 2
           [] typeof(actualValue) = "string"  -> 1
    ELSE CASE cell.type = "Boolean" -> 3
           [] cell.type = "Number"  -> 2
           [] cell.type \in {"Date", "String", "RichText"} -> 1
           [] OTHER -> 0

\* the body with its text runs, or undefined when no run carries a font setting
convertRichText(richText) ==
    IF richText.styled THEN [form |-> "body", dataStream |-> richText.text] ELSE Undefined

\* rawValue after the final safety check of the cell callback
resolveRawValue(cell) ==
    LET rawValue == getCellValue(cell) IN
    IF isBlank(rawValue) THEN rawValue
    ELSE IF typeof(rawValue) = "number" /\ notFinite(rawValue) THEN getOriginalCellValue(cell)
    ELSE IF typeof(rawValue) = "string" /\ includesNaN(rawValue) THEN getOriginalCellValue(cell)
    ELSE rawValue

\* cell.formula is truthy
formulaTruthy(cell) ==
    cell.formula.shape \in {"shared", "array"}
        \/ (cell.formula.shape = "string" /\ cell.formula.text # <<>>)

\* a prefix that is always added
normalizeFormulaAlways(text) == <<"=">> \o text

\* if (!formulaText.startsWith('=')) formulaText = '=' + formulaText
normalizeFormula(text) == IF text[1] = "=" THEN text ELSE <<"=">> \o text

\* the formula text the mapper picks from cell.formula; <<>> when it picks none
formulaTextOf(cell) ==
    IF cell.formula.shape \in {"shared", "array", "string"} THEN cell.formula.text ELSE <<>>

DispImgTokens == {"_xlfn.DISPIMG(ID_1,1)", "DISPIMG(ID_1,1)"}

\* the formula is a text that matches one of the DISPIMG patterns
isDispImg(cell) ==
    /\ cell.type = "Formula" /\ formulaTruthy(cell)
    /\ cell.formula.shape = "string"
    /\ \E i \in 1..Len(cell.formula.text) : cell.formula.text[i] \in DispImgTokens

\* the record the cell callback stores in cellData; Empty when it has no key
cellValueOf(cell) ==
    LET rawValue == resolveRawValue(cell)
        hasValue == ~isBlank(rawValue)
        cellType == getCellType(cell, rawValue)
        isFormula == cell.type = "Formula" /\ formulaTruthy(cell)
        formulaText == formulaTextOf(cell)
        style == convertCellStyle(cell.style)
        withValue == IF hasValue THEN flags({"v"}, rawValue) ELSE Empty
        withType == IF cellType # 0 /\ hasValue THEN flags({"t"}, cellType) ELSE Empty
        withFormula == IF isFormula /\ formulaText # <<>>
                       THEN flags({"f"}, normalizeFormula(formulaText)) ELSE Empty
        withResult == IF isFormula /\ rawValue \notin {JsNull, JsUndefined}
                      THEN flags({"v"}, rawValue) ELSE Empty
        withRich == IF cell.type = "RichText"
                    THEN flags({"p"}, convertRichText(cell.value)) ELSE Empty
        withLink == IF cell.type = "Hyperlink"
                    THEN flags({"link"},
                           [url  |-> cell.value.hyperlink,
                            text |-> IF cell.value.text # "" THEN cell.value.text
                                     ELSE cell.value.hyperlink])
                    ELSE Empty
        withStyle == IF style # Undefined THEN flags({"s"}, style) ELSE Empty
    IN assign(assign(assign(assign(assign(assign(
         withValue, withType), withFormula), withResult), withRich), withLink), withStyle)

(***************************************************************************)
(* The sheet mapper of importExcelWithImages.                              *)
(*                                                                         *)
(* A worksheet is [name, cells, merges, hasMedia]: name is a sequence of   *)
(* text tokens (<<>> for no name), cells the populated cells in the order  *)
(* eachRow/eachCell visit them, each [row, col, cell] with 0-based         *)
(* indices, and merges the regions of worksheet.model.merges.  Positions   *)
(* the list does not name are Null cells without style.                    *)
(* Generated ids are <<prefix, n>> with n a fresh number for every call    *)
(* of nanoid.                                                              *)
(***************************************************************************)
DEFAULT_ROW_COUNT    == 1000
DEFAULT_COLUMN_COUNT == 26

\* an insertion at the head of the list
unshiftSheetKey(sheetOrder, key) == <<key>> \o sheetOrder

\* univerWorkbook.sheetOrder.push(sheetKey)
pushSheetKey(sheetOrder, key) == Append(sheetOrder, key)

escapeSheetName(name) == IF name = <<>> THEN <<"Sheet", "1">> ELSE name

\* worksheet.name || `Sheet${sheetIndex + 1}`
nameOrDefault(worksheet, index) ==
    IF worksheet.name # <<>> THEN worksheet.name ELSE <<"Sheet", Digits[index + 2]>>

NoStyle == [font |-> None, fill |-> None, alignment |-> None, border |-> None, numFmt |-> None]
NullCell == [type |-> "Null", value |-> JsNull, formula |-> [shape |-> "none"],
             result |-> JsUndefined, style |-> NoStyle]

\* worksheet.getCell(row, col)
getCell(worksheet, row, col) ==
    IF \E i \in 1..Len(worksheet.cells) :
          worksheet.cells[i].row = row /\ worksheet.cells[i].col = col
    THEN worksheet.cells[CHOOSE i \in 1..Len(worksheet.cells) :
                            worksheet.cells[i].row = row /\ worksheet.cells[i].col = col].cell
    ELSE NullCell

\* cellData with row r present: if (!cellData[r]) cellData[r] = {}
withRow(cd, r) == IF r \in DOMAIN cd THEN cd ELSE assign(cd, flags({r}, Empty))

\* cellData[r][c] = cellValue
setCell(cd, r, c, cellValue) ==
    [withRow(cd, r) EXCEPT ![r] = assign(@, flags({c}, cellValue))]

\* a border handling that does not create the style of a cell that has none
withBorderOnStyled(cellValue, key, border) ==
    IF "s" \notin DOMAIN cellValue THEN cellValue
    ELSE LET s  == cellValue["s"]
             bd == IF "bd" \in DOMAIN s THEN s["bd"] ELSE Empty
         IN assign(cellValue,
                   flags({"s"}, assign(s, flags({"bd"}, assign(bd, flags({key}, border))))))

\* one cell with s.bd[key] set, s and s.bd created when missing
withBorder(cellValue, key, border) ==
    LET s  == IF "s" \in DOMAIN cellValue THEN cellValue["s"] ELSE Empty
        bd == IF "bd" \in DOMAIN s THEN s["bd"] ELSE Empty
    IN assign(cellValue,
              flags({"s"}, assign(s, flags({"bd"}, assign(bd, flags({key}, border))))))

\* the cells of one edge of a merge region, as <<row, col>>
edgeCells(merge, e) ==
    CASE e = "top"    -> {<<merge.startRow, c>> : c \in merge.startColumn..merge.endColumn}
      [] e = "bottom" -> {<<merge.endRow, c>> : c \in merge.startColumn..merge.endColumn}
      [] e = "left"   -> {<<r, merge.startColumn>> : r \in merge.startRow..merge.endRow}
      [] e = "right"  -> {<<r, merge.endColumn>> : r \in merge.startRow..merge.endRow}

\* a propagation that reaches the corner cells of the edge only
propagateEdgeCorners(cd, merge, e, border) ==
    LET cells == edgeCells(merge, e) \cap
                   ({merge.startRow, merge.endRow} \X {merge.startColumn, merge.endColumn})
        rows  == DOMAIN cd \cup {p[1] : p \in cells}
    IN [r \in rows |->
          LET old  == IF r \in DOMAIN cd THEN cd[r] ELSE Empty
              cols == DOMAIN old \cup {p[2] : p \in {q \in cells : q[1] = r}}
          IN [c \in cols |->
                IF <<r, c>> \in cells
                THEN withBorder(IF c \in DOMAIN old THEN old[c] ELSE Empty, edgeKey(e), border)
                ELSE old[c]]]

\* one of the four loops of the merge border handling
propagateEdge(cd, merge, e, border) ==
    LET cells == edgeCells(merge, e)
        rows  == DOMAIN cd \cup {p[1] : p \in cells}
    IN [r \in rows |->
          LET old  == IF r \in DOMAIN cd THEN cd[r] ELSE Empty
              cols == DOMAIN old \cup {p[2] : p \in {q \in cells : q[1] = r}}
          IN [c \in cols |->
                IF <<r, c>> \in cells
                THEN withBorder(IF c \in DOMAIN old THEN old[c] ELSE Empty, edgeKey(e), border)
                ELSE old[c]]]

EdgeOrder == <<"top", "bottom", "left", "right">>

RECURSIVE propagateBorders(_, _, _, _)
propagateBorders(cd, merge, border, i) ==
    IF i > Len(EdgeOrder) THEN cd
    ELSE propagateBorders(
           IF EdgeOrder[i] \in DOMAIN border
           THEN propagateEdge(cd, merge, EdgeOrder[i], convertSingleBorder(border[EdgeOrder[i]]))
           ELSE cd,
           merge, border, i + 1)

(***************************************************************************)
(* Sample workbooks.                                                       *)
(***************************************************************************)
MaxSheets == 2

BoldStyle == [NoStyle EXCEPT !.font = Some([bold |-> TRUE, italic |-> FALSE, underline |-> FALSE,
                                            strike |-> FALSE, size |-> 0, name |-> "",
                                            color |-> None])]
DateStyle == [NoStyle EXCEPT !.numFmt = Some(<<"y", "y", "y", "y", "-", "m", "m", "-", "d", "d">>)]
CellStyles == {NoStyle, BoldStyle, DateStyle}

Red  == [argb |-> Some(<<15, 15, 15, 15, 0, 0, 0, 0>>), theme |-> None, tint |-> None,
         indexed |-> None]
Thin  == [style |-> Some("thin"), color |-> None]
Thick == [style |-> Some("thick"), color |-> Some(Red)]

\* style.border of the sample cells: absent, {} and some sets of edges
SampleBorders ==
    {None, Some(Empty), Some(flags({"top"}, Thin)), Some(flags({"top", "left"}, Thick)),
     Some(flags({"bottom", "right"}, Thin)), Some(flags(Edges, Thick))}
BorderStyle(border) == [NoStyle EXCEPT !.border = border]

plainCell(type, value, style) ==
    [type |-> type, value |-> value, formula |-> [shape |-> "none"], result |-> JsUndefined,
     style |-> style]

\* a formula cell: cell.value is the formula object, cell.formula and cell.result its parts
formulaCell(shape, text, r, style) ==
    [type |-> "Formula", value |-> JsFormula(shape = "shared", text, r),
     formula |-> [shape |-> shape, text |-> text], result |-> r, style |-> style]

CachedResults ==
    {JsUndefined, JsNull, JsNumber(42), JsNumber(0), EmptyString, JsString("abc"), JsString("NaN"),
     JsNaN, JsInfinity, JsBoolean(TRUE), JsError("#DIV/0!"), JsDate(TRUE)}
FormulaTexts == {<<"SUM(A1:A3)">>, <<"=", "SUM(A1:A3)">>}

FormulaCells ==
    {formulaCell(sh, tx, r, st) :
        sh \in {"string", "shared", "array"}, tx \in FormulaTexts, r \in CachedResults,
        st \in CellStyles}
DispImgCells ==
    {formulaCell("string", <<tok>>, r, NoStyle) : tok \in DispImgTokens,
                                                   r \in {JsUndefined, JsString("#NAME?")}}
ValueCells ==
    {plainCell("Number", v, st) :
        v \in {JsNumber(42), JsNumber(0), JsNumber(-1), JsNaN, JsInfinity}, st \in CellStyles}
    \cup {plainCell("String", JsString(v), st) :
            v \in {"abc", "", "2024-01-15"} \cup StringsWithNaN, st \in CellStyles}
    \cup {plainCell("Boolean", JsBoolean(b), st) : b \in BOOLEAN, st \in CellStyles}
    \cup {plainCell("Date", JsDate(ok), st) : ok \in BOOLEAN, st \in CellStyles}
    \cup {plainCell("Error", JsError("#DIV/0!"), st) : st \in CellStyles}
    \cup {plainCell("RichText", JsRichText(tx, styled), st) :
            tx \in {"abc", ""}, styled \in BOOLEAN, st \in CellStyles}
    \cup {plainCell("Hyperlink", JsHyperlink(tx, "http://x"), st) :
            tx \in {"link", ""}, st \in CellStyles}
    \cup {plainCell("Merge", JsNull, st) : st \in CellStyles}
    \cup {plainCell("Null", JsNull, st) : st \in CellStyles \cup {BorderStyle(Some(Empty))}}
at(row, col, cell) == [row |-> row, col |-> col, cell |-> cell]
sheetOf(name, cells, merges, hasMedia) ==
    [name |-> name, cells |-> cells, merges |-> merges, hasMedia |-> hasMedia]
bookOf(worksheets, hasImage) == [worksheets |-> worksheets, hasImage |-> hasImage]

\* the entries of a set of cells in the order of the walk: by row, then by column
before(a, b) == a.row < b.row \/ (a.row = b.row /\ a.col < b.col)
RECURSIVE walkOrder(_)
walkOrder(entries) ==
    IF entries = {} THEN <<>>
    ELSE LET first == CHOOSE a \in entries : \A b \in entries \ {a} : before(a, b)
         IN <<first>> \o walkOrder(entries \ {first})

\* workbooks of up to MaxSheets small sheets, named or not, with or without cells
SmallSheets ==
    {sheetOf(<<"Data">>, <<>>, <<>>, FALSE), sheetOf(<<>>, <<>>, <<>>, FALSE),
     sheetOf(<<"Data">>, <<at(0, 0, plainCell("Number", JsNumber(42), NoStyle))>>, <<>>, FALSE),
     Undefined}
SheetBooks ==
    {bookOf(ws, FALSE) : ws \in UNION {[1..n -> SmallSheets] : n \in 0..MaxSheets}}

\* workbooks of one sheet with one cell
CellBooks ==
    {bookOf(<<sheetOf(<<"Data">>, <<at(r, 1, c)>>, <<>>, FALSE)>>, FALSE) :
        r \in {0, 2}, c \in ValueCells \cup FormulaCells}
    \cup {bookOf(<<sheetOf(<<"Data">>, <<at(1, 2, c)>>, <<>>, m)>>, i) :
            c \in DispImgCells, m \in BOOLEAN, i \in BOOLEAN}

\* workbooks of one sheet with merge regions
region(startRow, endRow, startColumn, endColumn) ==
    [startRow |-> startRow, endRow |-> endRow, startColumn |-> startColumn,
     endColumn |-> endColumn]
SampleMerges == {region(0, 2, 0, 2), region(1, 2, 0, 2), region(0, 0, 1, 2)}
SecondMerge  == region(4, 5, 0, 1)
AnchorCells(border) ==
    {plainCell("Number", JsNumber(42), BorderStyle(border)),
     plainCell("Null", JsNull, BorderStyle(border)),
     formulaCell("string", <<"SUM(A1:A3)">>, JsNumber(42), BorderStyle(border))}
\* what lies in the last cell of the region, next to it and below it
Neighbours(m) ==
    SUBSET {at(m.endRow, m.endColumn, plainCell("Merge", JsNull, BorderStyle(Some(flags(Edges, Thin))))),
            at(m.startRow, m.endColumn + 1, plainCell("String", JsString("abc"), BoldStyle)),
            at(m.endRow + 1, m.startColumn,
               plainCell("Null", JsNull, BorderStyle(Some(flags({"top"}, Thin)))))}
MergeBooks ==
    UNION {
      {bookOf(<<sheetOf(<<"Data">>,
                        walkOrder({at(m.startRow, m.startColumn, a)} \cup ns
                                  \cup IF two
                                       THEN {at(SecondMerge.startRow, SecondMerge.startColumn,
                                                plainCell("String", JsString("abc"),
                                                          BorderStyle(Some(flags({"left"}, Thin)))))}
                                       ELSE {}),
                        IF two THEN <<m, SecondMerge>> ELSE <<m>>, FALSE)>>, FALSE) :
          a \in UNION {AnchorCells(b) : b \in SampleBorders},
          ns \in Neighbours(m), two \in BOOLEAN} : m \in SampleMerges}

Workbooks == SheetBooks \cup CellBooks \cup MergeBooks

(***************************************************************************)
(* The package of the file, as JSZip hands it to the package-level         *)
(* extractors.  The archive is the record                                  *)
(*   [loads, workbookXml, workbookRels, entries]                           *)
(* loads: does workbook.xlsx.load accept the file; workbookXml: None or    *)
(* Some([sheets, pivotCaches]), the <sheet name r:id> and <pivotCache      *)
(* cacheId r:id> elements of xl/workbook.xml in document order;            *)
(* workbookRels: None or Some(the list of [key |-> Id, value |-> Target]   *)
(* of xl/_rels/workbook.xml.rels); entries: the other parts in the order   *)
(* of the archive, each [path, part].  A path below xl/ is the record      *)
(* [dir, n, rels]: xl/<dir>/<stem><n>.xml, or the relationship file of     *)
(* that part when rels is TRUE.  A part carries unreadable, TRUE when      *)
(* file.async('string') rejects for it.                                    *)
(***************************************************************************)
partPath(dir, n) == [dir |-> dir, n |-> n, rels |-> FALSE]

\* path.replace('<dir>/', '<dir>/_rels/').replace('.xml', '.xml.rels')
relsPathOf(path) == [path EXCEPT !.rels = TRUE]

entryOf(path, part) == [path |-> path, part |-> part]

\* zip.file(path): None when the archive has no such part
zipFile(zip, path) ==
    IF \E i \in 1..Len(zip.entries) : zip.entries[i].path = path
    THEN Some(zip.entries[CHOOSE i \in 1..Len(zip.entries) :
                             /\ zip.entries[i].path = path
                             /\ \A j \in 1..(i - 1) : zip.entries[j].path # path].part)
    ELSE None

\* a JavaScript Map as the list of its [key, value] in insertion order
mapSet(m, k, v) ==
    IF \E i \in 1..Len(m) : m[i].key = k
    THEN [i \in 1..Len(m) |-> IF m[i].key = k THEN [key |-> k, value |-> v] ELSE m[i]]
    ELSE Append(m, [key |-> k, value |-> v])

mapHas(m, k) == \E i \in 1..Len(m) : m[i].key = k

mapGet(m, k) == m[CHOOSE i \in 1..Len(m) : m[i].key = k].value

\* the Map filled by one set per element of a list of [key, value]
RECURSIVE mapOf(_, _, _)
mapOf(pairs, i, m) ==
    IF i > Len(pairs) THEN m
    ELSE mapOf(pairs, i + 1, mapSet(m, pairs[i].key, pairs[i].value))

\* sheetRIdMap: sheet name -> r:id, from the <sheet> elements of workbook.xml
sheetRIdMapOf(zip) ==
    mapOf([i \in 1..Len(zip.workbookXml[1].sheets) |->
             [key |-> zip.workbookXml[1].sheets[i].name,
              value |-> zip.workbookXml[1].sheets[i].rId]], 1, <<>>)

\* rIdToPathMap: Id -> Target, from workbook.xml.rels
rIdToPathMapOf(zip) == mapOf(zip.workbookRels[1], 1, <<>>)

\* Math.round(parseInt(emu, 10) / 9525)
emuToPixels(emu) == (2 * emu + 9525) \div 19050

(***************************************************************************)
(* parseChartsFromXlsx.  A drawing part is [unreadable, anchors], an       *)
(* anchor [chartRef, from, ext]: chartRef the r:id of <c:chart> (None      *)
(* for a picture or a shape), from None or Some([col, row, colOff,         *)
(* rowOff]), ext None or Some([cx, cy]).  The relationship file of a       *)
(* drawing is [unreadable, targets], the Map r:id -> chart path of the     *)
(* targets that contain 'chart'.  A chart part is                          *)
(*   [unreadable, pivotSource, families, barDir, grouping, refs, title]    *)
(* with families the set of <c:...Chart> elements it contains and refs     *)
(* the <c:f> texts that contain '!' and '$'.                               *)
(* Every extractor result is the record [value, idCounter, thrown]:        *)
(* thrown is TRUE when a read rejected and the catch of the extractor      *)
(* took over.                                                              *)
(***************************************************************************)
\* the first loop: sheetDrawingMap, the list of [key |-> sheetName, value |-> drawingPath]
RECURSIVE sheetDrawingLoop(_, _, _, _, _)
sheetDrawingLoop(zip, sheetRIdMap, rIdToPathMap, i, acc) ==
    IF i > Len(sheetRIdMap) \/ acc.thrown THEN acc
    ELSE LET rId == sheetRIdMap[i].value
             skip == sheetDrawingLoop(zip, sheetRIdMap, rIdToPathMap, i + 1, acc)
         IN IF ~mapHas(rIdToPathMap, rId) THEN skip
            ELSE LET sheetRelsFile == zipFile(zip, relsPathOf(mapGet(rIdToPathMap, rId))) IN
                 IF sheetRelsFile = None THEN skip
                 ELSE IF sheetRelsFile[1].unreadable THEN [acc EXCEPT !.thrown = TRUE]
                 ELSE IF sheetRelsFile[1].drawing = None THEN skip
                 ELSE sheetDrawingLoop(zip, sheetRIdMap, rIdToPathMap, i + 1,
                        [acc EXCEPT !.value = mapSet(@, sheetRIdMap[i].key,
                                                     sheetRelsFile[1].drawing[1])])

ChartFamilies ==
    <<"barChart", "lineChart", "pieChart", "doughnutChart", "areaChart", "scatterChart",
      "radarChart", "bubbleChart", "ofPieChart", "surfaceChart", "stockChart">>

\* a chain of tests that looks for a pie chart before it looks for a line chart
chartTypeOfPieFirst(chartXml) ==
    IF "barChart" \in chartXml.families
    THEN IF chartXml.barDir = Some("bar")
         THEN IF chartXml.grouping = Some("stacked") THEN "stackedBar"
              ELSE IF chartXml.grouping = Some("percentStacked") THEN "percentStackedBar"
              ELSE "bar"
         ELSE "column"
    ELSE IF "pieChart" \in chartXml.families THEN "pie"
    ELSE IF "lineChart" \in chartXml.families THEN "line"
    ELSE IF "doughnutChart" \in chartXml.families THEN "doughnut"
    ELSE IF "areaChart" \in chartXml.families
    THEN IF chartXml.grouping = Some("stacked") THEN "stackedArea"
         ELSE IF chartXml.grouping = Some("percentStacked") THEN "percentStackedArea"
         ELSE "area"
    ELSE IF "scatterChart" \in chartXml.families THEN "scatter"
    ELSE IF "radarChart" \in chartXml.families THEN "radar"
    ELSE IF "bubbleChart" \in chartXml.families THEN "bubble"
    ELSE IF "ofPieChart" \in chartXml.families THEN "pie"
    ELSE IF "surfaceChart" \in chartXml.families THEN "scatter"
    ELSE IF "stockChart" \in chartXml.families THEN "combo"
    ELSE "column"

\* the chain of chartXml.includes('<c:...Chart') tests; 'column' is the initial value
chartTypeOf(chartXml) ==
    IF "barChart" \in chartXml.families
    THEN IF chartXml.barDir = Some("bar")
         THEN IF chartXml.grouping = Some("stacked") THEN "stackedBar"
              ELSE IF chartXml.grouping = Some("percentStacked") THEN "percentStackedBar"
              ELSE "bar"
         ELSE "column"
    ELSE IF "lineChart" \in chartXml.families THEN "line"
    ELSE IF "pieChart" \in chartXml.families THEN "pie"
    ELSE IF "doughnutChart" \in chartXml.families THEN "doughnut"
    ELSE IF "areaChart" \in chartXml.families
    THEN IF chartXml.grouping = Some("stacked") THEN "stackedArea"
         ELSE IF chartXml.grouping = Some("percentStacked") THEN "percentStackedArea"
         ELSE "area"
    ELSE IF "scatterChart" \in chartXml.families THEN "scatter"
    ELSE IF "radarChart" \in chartXml.families THEN "radar"
    ELSE IF "bubbleChart" \in chartXml.families THEN "bubble"
    ELSE IF "ofPieChart" \in chartXml.families THEN "pie"
    ELSE IF "surfaceChart" \in chartXml.families THEN "scatter"
    ELSE IF "stockChart" \in chartXml.families THEN "combo"
    ELSE "column"

\* position and size of an anchor
anchorPosition(anchor) ==
    IF anchor.from = None
    THEN [column |-> 0, row |-> 0, columnOffset |-> 0, rowOffset |-> 0]
    ELSE [column |-> anchor.from[1].col, row |-> anchor.from[1].row,
          columnOffset |-> emuToPixels(anchor.from[1].colOff),
          rowOffset |-> emuToPixels(anchor.from[1].rowOff)]

anchorSize(anchor) ==
    IF anchor.ext = None THEN [width |-> 600, height |-> 400]
    ELSE [width |-> emuToPixels(anchor.ext[1].cx), height |-> emuToPixels(anchor.ext[1].cy)]

\* a chart record whose title carries the generated id
chartOfStamped(anchor, chartFile, id, sheetId, sheetName) ==
    [chartId   |-> id,
     sheetId   |-> sheetId,
     sheetName |-> sheetName,
     chartType |-> IF chartFile = None THEN "column" ELSE chartTypeOf(chartFile[1]),
     dataRange |-> IF chartFile = None \/ Len(chartFile[1].refs) = 0 THEN [form |-> "empty"]
                   ELSE mergeChartDataRanges(chartFile[1].refs),
     position  |-> anchorPosition(anchor),
     size      |-> anchorSize(anchor),
     title     |-> id]

\* the chart record of one anchor whose chart part, if any, has been read
chartOf(anchor, chartFile, id, sheetId, sheetName) ==
    [chartId   |-> id,
     sheetId   |-> sheetId,
     sheetName |-> sheetName,
     chartType |-> IF chartFile = None THEN "column" ELSE chartTypeOf(chartFile[1]),
     dataRange |-> IF chartFile = None \/ Len(chartFile[1].refs) = 0 THEN [form |-> "empty"]
                   ELSE mergeChartDataRanges(chartFile[1].refs),
     position  |-> anchorPosition(anchor),
     size      |-> anchorSize(anchor),
     title     |-> IF chartFile = None \/ chartFile[1].title = None THEN ""
                   ELSE chartFile[1].title[1]]

\* a chart list that is keyed by the id of its first chart
pushChartUnderChartId(cs, sheetId, chart) ==
    IF chart.chartId \in DOMAIN cs THEN [cs EXCEPT ![chart.chartId] = Append(@, chart)]
    ELSE assign(cs, flags({chart.chartId}, <<chart>>))

\* charts[sheetId].push(chart), the list created when missing
pushChart(cs, sheetId, chart) ==
    IF sheetId \in DOMAIN cs THEN [cs EXCEPT ![sheetId] = Append(@, chart)]
    ELSE assign(cs, flags({sheetId}, <<chart>>))

\* the while loop over the anchors of one drawing
RECURSIVE anchorLoop(_, _, _, _, _, _, _)
anchorLoop(zip, anchors, i, chartRIdMap, sheetId, sheetName, acc) ==
    IF i > Len(anchors) \/ acc.thrown THEN acc
    ELSE LET anchor == anchors[i]
             skip   == anchorLoop(zip, anchors, i + 1, chartRIdMap, sheetId, sheetName, acc)
         IN IF anchor.chartRef = None THEN skip
            ELSE IF ~mapHas(chartRIdMap, anchor.chartRef[1]) THEN skip
            ELSE LET chartFile == zipFile(zip, mapGet(chartRIdMap, anchor.chartRef[1])) IN
                 IF chartFile # None /\ chartFile[1].unreadable
                 THEN [acc EXCEPT !.thrown = TRUE]
                 ELSE IF chartFile # None /\ chartFile[1].pivotSource THEN skip
                 ELSE anchorLoop(zip, anchors, i + 1, chartRIdMap, sheetId, sheetName,
                        [acc EXCEPT
                           !.value = pushChart(@, sheetId,
                                       chartOf(anchor, chartFile,
                                               <<"chart", acc.idCounter + 1>>,
                                               sheetId, sheetName)),
                           !.idCounter = @ + 1])

\* one round of the second loop that gives up at a missing drawing part
parseDrawingOrThrow(zip, entry, nameToId, acc) ==
    IF entry.key \notin DOMAIN nameToId THEN acc
    ELSE LET drawingFile == zipFile(zip, entry.value) IN
         IF drawingFile = None THEN [acc EXCEPT !.thrown = TRUE]
         ELSE IF drawingFile[1].unreadable THEN [acc EXCEPT !.thrown = TRUE]
         ELSE LET drawingRelsFile == zipFile(zip, relsPathOf(entry.value)) IN
              IF drawingRelsFile = None THEN [acc EXCEPT !.thrown = TRUE]
              ELSE IF drawingRelsFile[1].unreadable THEN [acc EXCEPT !.thrown = TRUE]
              ELSE anchorLoop(zip, drawingFile[1].anchors, 1, drawingRelsFile[1].targets,
                              nameToId[entry.key], entry.key, acc)

\* one round of the second loop: the drawing of one sheet
parseDrawing(zip, entry, nameToId, acc) ==
    IF entry.key \notin DOMAIN nameToId THEN acc
    ELSE LET drawingFile == zipFile(zip, entry.value) IN
         IF drawingFile = None THEN acc
         ELSE IF drawingFile[1].unreadable THEN [acc EXCEPT !.thrown = TRUE]
         ELSE LET drawingRelsFile == zipFile(zip, relsPathOf(entry.value)) IN
              IF drawingRelsFile = None THEN acc
              ELSE IF drawingRelsFile[1].unreadable THEN [acc EXCEPT !.thrown = TRUE]
              ELSE anchorLoop(zip, drawingFile[1].anchors, 1, drawingRelsFile[1].targets,
                              nameToId[entry.key], entry.key, acc)

(***************************************************************************)
(* parsePivotTablesFromXlsx.  A cache definition part is                   *)
(* [unreadable, source], source None or Some([sheet, ref]) with ref a      *)
(* location as in a pivot table part; only a ref of the form               *)
(* "A1:D6" is taken.  A pivot table part is [unreadable, xml], xml as      *)
(* described with parsePivotTablePart.  The relationship file of a sheet   *)
(* is [unreadable, drawing, pivotTables]: the target of its drawing        *)
(* relationship, None when it has none, and the targets of its pivot       *)
(* table relationships.                                                    *)
(***************************************************************************)
\* cacheIdToRIdMap, from the <pivotCache> elements of workbook.xml
cacheIdToRIdMapOf(zip) ==
    mapOf([i \in 1..Len(zip.workbookXml[1].pivotCaches) |->
             [key |-> zip.workbookXml[1].pivotCaches[i].cacheId,
              value |-> zip.workbookXml[1].pivotCaches[i].rId]], 1, <<>>)

\* the loop that fills cacheMap
RECURSIVE pivotCacheLoop(_, _, _, _, _)
pivotCacheLoop(zip, cacheIdToRIdMap, rIdToPathMap, i, acc) ==
    IF i > Len(cacheIdToRIdMap) \/ acc.thrown THEN acc
    ELSE LET rId  == cacheIdToRIdMap[i].value
             skip == pivotCacheLoop(zip, cacheIdToRIdMap, rIdToPathMap, i + 1, acc)
         IN IF ~mapHas(rIdToPathMap, rId) THEN skip
            ELSE LET cacheFile == zipFile(zip, mapGet(rIdToPathMap, rId)) IN
                 IF cacheFile = None THEN skip
                 ELSE IF cacheFile[1].unreadable THEN [acc EXCEPT !.thrown = TRUE]
                 ELSE IF cacheFile[1].source = None THEN skip
                 ELSE IF cacheFile[1].source[1].ref.form # "range" THEN skip
                 ELSE LET ref == cacheFile[1].source[1].ref IN
                      pivotCacheLoop(zip, cacheIdToRIdMap, rIdToPathMap, i + 1,
                        [acc EXCEPT !.value =
                           assign(@, flags({cacheIdToRIdMap[i].key},
                             [sourceSheetName |-> cacheFile[1].source[1].sheet,
                              sourceRange |-> [startRow    |-> parseInt(ref.row) - 1,
                                               startColumn |-> colToNum(ref.col),
                                               endRow      |-> parseInt(ref.endRow) - 1,
                                               endColumn   |-> colToNum(ref.endCol)]]))])

\* the loop over the pivot table relationships of one sheet
RECURSIVE pivotRelLoop(_, _, _, _, _, _, _, _)
pivotRelLoop(zip, rels, i, sheetId, sheetName, caches, nameToId, acc) ==
    IF i > Len(rels) \/ acc.thrown THEN acc
    ELSE LET pivotTableFile == zipFile(zip, rels[i])
             skip == pivotRelLoop(zip, rels, i + 1, sheetId, sheetName, caches, nameToId, acc)
         IN IF pivotTableFile = None THEN skip
            ELSE IF pivotTableFile[1].unreadable THEN [acc EXCEPT !.thrown = TRUE]
            ELSE LET parsed == parsePivotTablePart(pivotTableFile[1].xml,
                                                   <<"pivot", acc.idCounter + 1>>,
                                                   sheetId, sheetName, caches, nameToId)
                 IN IF parsed = Null THEN skip
                    ELSE pivotRelLoop(zip, rels, i + 1, sheetId, sheetName, caches, nameToId,
                           [acc EXCEPT !.value = Append(@, parsed), !.idCounter = @ + 1])

\* one round of the loop over sheetRIdMap
parsePivotSheet(zip, entry, rIdToPathMap, caches, nameToId, acc) ==
    IF ~mapHas(rIdToPathMap, entry.value) THEN acc
    ELSE IF entry.key \notin DOMAIN nameToId THEN acc
    ELSE LET sheetRelsFile == zipFile(zip, relsPathOf(mapGet(rIdToPathMap, entry.value))) IN
         IF sheetRelsFile = None THEN acc
         ELSE IF sheetRelsFile[1].unreadable THEN [acc EXCEPT !.thrown = TRUE]
         ELSE pivotRelLoop(zip, sheetRelsFile[1].pivotTables, 1, nameToId[entry.key],
                           entry.key, caches, nameToId, acc)

(***************************************************************************)
(* parseSortsFromXlsx.  A worksheet part is [unreadable, sortState],       *)
(* sortState None or Some([ref, startCol, conditions]): ref the text of    *)
(* the ref attribute, startCol its leading column letters (<<>> when it    *)
(* has none), conditions the <sortCondition> elements, each                *)
(* [col, descending] with col the leading column letters of its ref.       *)
(***************************************************************************)
\* the entries whose path matches ^xl/worksheets/sheet(\d+)\.xml$
sheetEntries(zip) ==
    SelectSeq(zip.entries, LAMBDA e : e.path.dir = "worksheets" /\ ~e.path.rels)

\* what the group of (?:descending="(\d+)")? captures from the attributes that
\* follow ref: the greedy [^>]* before the group is tried with its longest match
\* first, the group is tried at the position that leaves, and the rest of the
\* pattern, [^>]*\/?>, matches there whether the group took part or not
groupCapture(afterRef) ==
    LET taken == Len(afterRef) IN
    IF taken + 1 <= Len(afterRef) /\ afterRef[taken + 1].name = "descending"
    THEN Some(afterRef[taken + 1].value)
    ELSE None

\* condMatch[2] === '1'
descendingOf(condition) == groupCapture(condition.afterRef) = Some("1")

RECURSIVE sortConditions(_, _, _)
sortConditions(conditions, i, startColIndex) ==
    IF i > Len(conditions) THEN <<>>
    ELSE IF conditions[i].col = <<>> THEN sortConditions(conditions, i + 1, startColIndex)
    ELSE <<[column    |-> colToNum(conditions[i].col) - startColIndex,
            ascending |-> ~descendingOf(conditions[i])]>>
         \o sortConditions(conditions, i + 1, startColIndex)

\* one round of the loop over zip.files
parseSortSheet(entry, indexToId, acc) ==
    IF (entry.path.n - 1) \notin DOMAIN indexToId THEN acc
    ELSE IF entry.part.unreadable THEN [acc EXCEPT !.thrown = TRUE]
    ELSE IF entry.part.sortState = None THEN acc
    ELSE LET sortState  == entry.part.sortState[1]
             conditions == sortConditions(sortState.conditions, 1,
                             colToNum(IF sortState.startCol = <<>> THEN <<1>>
                                      ELSE sortState.startCol))
         IN IF Len(conditions) = 0 THEN acc
            ELSE [acc EXCEPT !.value =
                    assign(@, flags({indexToId[entry.path.n - 1]},
                                    [range |-> sortState.ref, conditions |-> conditions]))]

(***************************************************************************)
(* Sample files: the name, the option, the workbook the reader builds and  *)
(* the package the extractors read.                                        *)
(***************************************************************************)
sheetElement(name, rId) == [name |-> name, rId |-> rId]
relationship(id, target) == [key |-> id, value |-> target]
worksheetPart(sortState) == [unreadable |-> FALSE, sortState |-> sortState]
sheetRelsPart(drawing, pivots) ==
    [unreadable |-> FALSE, drawing |-> drawing, pivotTables |-> pivots]
drawingPart(anchors) == [unreadable |-> FALSE, anchors |-> anchors]
drawingRelsPart(targets) == [unreadable |-> FALSE, targets |-> targets]
chartPart(families, barDir, grouping, refs, title) ==
    [unreadable |-> FALSE, pivotSource |-> FALSE, families |-> families, barDir |-> barDir,
     grouping |-> grouping, refs |-> refs, title |-> title]
unreadablePart == [unreadable |-> TRUE]

\* the package of a workbook without drawings, pivot tables and sort states
RECURSIVE plainSheets(_, _)
plainSheets(worksheets, i) ==
    IF i > Len(worksheets) THEN <<>>
    ELSE IF worksheets[i] = Undefined THEN plainSheets(worksheets, i + 1)
    ELSE <<i>> \o plainSheets(worksheets, i + 1)

plainArchive(wb, loads) ==
    LET present == plainSheets(wb.worksheets, 1) IN
    [loads        |-> loads,
     workbookXml  |-> Some([sheets |-> [k \in 1..Len(present) |->
                                          sheetElement(nameOrDefault(wb.worksheets[present[k]],
                                                                     present[k] - 1),
                                                       present[k])],
                            pivotCaches |-> <<>>]),
     workbookRels |-> Some([k \in 1..Len(present) |->
                              relationship(present[k], partPath("worksheets", present[k]))]),
     entries      |-> [k \in 1..Len(present) |->
                         entryOf(partPath("worksheets", present[k]), worksheetPart(None))]]

XlsxName == <<<<"b", "o", "o", "k">>, <<"x", "l", "s", "x">>>>
callOf(name, images, wb, zip) ==
    [fileName |-> name, includeImages |-> images, workbook |-> wb, archive |-> zip]

\* the workbook of the package samples: two sheets, named or not alike
PackageBook == bookOf(<<sheetOf(<<"Data">>, <<>>, <<>>, FALSE),
                        sheetOf(<<"Pivot">>, <<>>, <<>>, FALSE)>>, FALSE)
TwinBook    == bookOf(<<sheetOf(<<"Data">>, <<>>, <<>>, FALSE),
                        sheetOf(<<"Data">>, <<>>, <<>>, FALSE)>>, FALSE)

\* ---- charts ----
BarChart  == chartPart({"barChart"}, Some("bar"), Some("stacked"),
                       <<[kind |-> "range", sheet |-> "Data", startCol |-> <<1>>,
                          startRow |-> <<1>>, endCol |-> <<2>>, endRow |-> <<6>>]>>,
                       Some("Sales"))
LineChart == chartPart({"lineChart"}, None, None, <<>>, None)
PivotChart == [LineChart EXCEPT !.pivotSource = TRUE]
chartAnchor(rId) ==
    [chartRef |-> Some(rId), from |-> Some([col |-> 3, row |-> 1, colOff |-> 9525, rowOff |-> 0]),
     ext |-> Some([cx |-> 4762500, cy |-> 2857500])]
PictureAnchor == [chartRef |-> None, from |-> None, ext |-> None]
\* the relationships of the first drawing: rId3 is an unreadable part, rId4 a
\* pivot chart, rId5 a part that is missing; rId9 is in no relationship
FirstTargets ==
    <<relationship("rId1", partPath("charts", 1)), relationship("rId2", partPath("charts", 2)),
      relationship("rId3", partPath("charts", 3)), relationship("rId4", partPath("charts", 4)),
      relationship("rId5", partPath("charts", 5))>>
AnchorLists ==
    {<<>>, <<chartAnchor("rId1")>>, <<chartAnchor("rId1"), chartAnchor("rId2")>>,
     <<PictureAnchor, chartAnchor("rId1")>>, <<chartAnchor("rId9"), chartAnchor("rId2")>>,
     <<chartAnchor("rId3"), chartAnchor("rId1")>>,
     <<chartAnchor("rId1"), chartAnchor("rId3"), chartAnchor("rId2")>>,
     <<chartAnchor("rId4"), chartAnchor("rId1")>>, <<chartAnchor("rId5")>>}
Hops == {"full", "noSheetPath", "noSheetRels", "noDrawingRel", "noDrawingPart",
         "noDrawingRels", "unknownSheet"}

\* the first sheet's chain with one hop absent, the second sheet's chain complete
chartArchive(wb, hop, anchors, second) ==
    LET ws1 == partPath("worksheets", 1)
        ws2 == partPath("worksheets", 2)
        dr1 == partPath("drawings", 1)
        dr2 == partPath("drawings", 2)
        names == IF hop = "unknownSheet" THEN <<<<"Gone">>, wb.worksheets[2].name>>
                 ELSE <<wb.worksheets[1].name, wb.worksheets[2].name>>
    IN [loads        |-> TRUE,
        workbookXml  |-> Some([sheets |-> <<sheetElement(names[1], "rId1"),
                                            sheetElement(names[2], "rId2")>>,
                               pivotCaches |-> <<>>]),
        workbookRels |-> Some((IF hop = "noSheetPath" THEN <<>>
                               ELSE <<relationship("rId1", ws1)>>)
                              \o <<relationship("rId2", ws2)>>),
        entries      |->
            <<entryOf(ws1, worksheetPart(None)), entryOf(ws2, worksheetPart(None))>>
            \o (IF hop = "noSheetRels" THEN <<>>
                ELSE <<entryOf(relsPathOf(ws1),
                               sheetRelsPart(IF hop = "noDrawingRel" THEN None ELSE Some(dr1),
                                             <<>>))>>)
            \o (IF hop = "noDrawingPart" THEN <<>> ELSE <<entryOf(dr1, drawingPart(anchors))>>)
            \o (IF hop = "noDrawingRels" THEN <<>>
                ELSE <<entryOf(relsPathOf(dr1), drawingRelsPart(FirstTargets))>>)
            \o <<entryOf(partPath("charts", 1), BarChart),
                 entryOf(partPath("charts", 2), LineChart),
                 entryOf(partPath("charts", 3), unreadablePart),
                 entryOf(partPath("charts", 4), PivotChart)>>
            \o (IF second
                THEN <<entryOf(relsPathOf(ws2), sheetRelsPart(Some(dr2), <<>>)),
                       entryOf(dr2, drawingPart(<<chartAnchor("rId1")>>)),
                       entryOf(relsPathOf(dr2),
                               drawingRelsPart(<<relationship("rId1", partPath("charts", 6))>>)),
                       entryOf(partPath("charts", 6), LineChart)>>
                ELSE <<>>)]
\* chart parts for the classification: no family, one that is not recognized, every
\* family alone, every two families that are neighbours in the order of the tests,
\* and all of them
FamilySets ==
    {{}, {"bar3DChart"}, {ChartFamilies[i] : i \in 1..Len(ChartFamilies)}}
    \cup {{ChartFamilies[i]} : i \in 1..Len(ChartFamilies)}
    \cup {{ChartFamilies[i], ChartFamilies[i + 1]} : i \in 1..(Len(ChartFamilies) - 1)}
BarDirs == {None, Some("bar"), Some("col")}
Groupings == {None, Some("clustered"), Some("stacked"), Some("percentStacked")}
TypedParts ==
    {chartPart(families, barDir, grouping, <<>>, None) :
        families \in FamilySets, barDir \in BarDirs, grouping \in Groupings}
    \cup {[chartPart(families, None, None, <<>>, None) EXCEPT !.pivotSource = TRUE] :
            families \in FamilySets}
\* a package whose first sheet has one chart, with the given part
typedArchive(part) ==
    LET zip == chartArchive(PackageBook, "full", <<chartAnchor("rId1")>>, FALSE) IN
    [zip EXCEPT !.entries = [i \in 1..Len(zip.entries) |->
                               IF zip.entries[i].path = partPath("charts", 1)
                               THEN entryOf(partPath("charts", 1), part)
                               ELSE zip.entries[i]]]
TypedArchives == {typedArchive(part) : part \in TypedParts}

ChartArchives ==
    {chartArchive(PackageBook, hop, anchors, second) :
        hop \in Hops, anchors \in AnchorLists, second \in BOOLEAN}
    \cup {[chartArchive(PackageBook, "full", <<chartAnchor("rId1")>>, TRUE)
             EXCEPT !.workbookXml = None]}

\* ---- pivot tables ----
pivotTablePart(cacheId, pageFields) ==
    [unreadable |-> FALSE,
     xml |-> [location |-> [form |-> "range", col |-> <<1>>, row |-> <<3>>,
                            endCol |-> <<3>>, endRow |-> <<1, 1>>],
              cacheId |-> cacheId, rowFields |-> <<0>>, colFields |-> <<>>,
              dataFields |-> <<2>>, pageFields |-> pageFields]]
cachePart(sheet) ==
    [unreadable |-> FALSE,
     source |-> Some([sheet |-> sheet,
                      ref |-> [form |-> "range", col |-> <<1>>, row |-> <<1>>,
                               endCol |-> <<4>>, endRow |-> <<6>>]])]
FirstPivots  == {"none", "good", "unreadable", "unknownCache", "missingPart"}
SecondPivots == {<<>>, <<"good">>, <<"good", "unreadable">>, <<"unreadable", "good">>}
pivotPartOf(what) ==
    IF what = "good" THEN pivotTablePart("1", <<0>>)
    ELSE IF what = "unknownCache" THEN pivotTablePart("6", <<>>)
    ELSE unreadablePart
pivotArchive(first, second, sourceSheet) ==
    LET ws1 == partPath("worksheets", 1)
        ws2 == partPath("worksheets", 2)
    IN [loads        |-> TRUE,
        workbookXml  |-> Some([sheets |-> <<sheetElement(<<"Data">>, "rId1"),
                                            sheetElement(<<"Pivot">>, "rId2")>>,
                               pivotCaches |-> <<[cacheId |-> "1", rId |-> "rId3"]>>]),
        workbookRels |-> Some(<<relationship("rId1", ws1), relationship("rId2", ws2),
                                relationship("rId3", partPath("pivotCache", 1))>>),
        entries      |->
            <<entryOf(ws1, worksheetPart(None)), entryOf(ws2, worksheetPart(None)),
              entryOf(partPath("pivotCache", 1), cachePart(sourceSheet))>>
            \o (IF first = "none" THEN <<>>
                ELSE <<entryOf(relsPathOf(ws1),
                               sheetRelsPart(None, <<partPath("pivotTables", 1)>>))>>)
            \o (IF first \in {"none", "missingPart"} THEN <<>>
                ELSE <<entryOf(partPath("pivotTables", 1), pivotPartOf(first))>>)
            \o (IF second = <<>> THEN <<>>
                ELSE <<entryOf(relsPathOf(ws2),
                               sheetRelsPart(None, [k \in 1..Len(second) |->
                                                      partPath("pivotTables", k + 1)]))>>)
            \o [k \in 1..Len(second) |->
                  entryOf(partPath("pivotTables", k + 1), pivotPartOf(second[k]))]]
PivotArchives ==
    {pivotArchive(first, second, sourceSheet) :
        first \in FirstPivots, second \in SecondPivots, sourceSheet \in {<<"Data">>, <<"Gone">>}}

\* ---- sort states ----
\* a condition is [col, descending, afterRef]: the leading column letters of its ref,
\* whether it carries descending="1", and the attributes that stand after ref
descendingAttr(value) == [name |-> "descending", value |-> value]
SortState ==
    [ref |-> "B2:D10", startCol |-> <<2>>,
     conditions |-> <<[col |-> <<3>>, descending |-> TRUE,
                       afterRef |-> <<descendingAttr("1")>>],
                      [col |-> <<2>>, descending |-> FALSE, afterRef |-> <<>>]>>]
\* Z1:AB9 with the conditions AB (descending="1" before ref), Z (descending="0")
\* and AA
WideSortState ==
    [ref |-> "Z1:AB9", startCol |-> <<26>>,
     conditions |-> <<[col |-> <<1, 2>>, descending |-> TRUE, afterRef |-> <<>>],
                      [col |-> <<26>>, descending |-> FALSE,
                       afterRef |-> <<descendingAttr("0")>>],
                      [col |-> <<1, 1>>, descending |-> FALSE, afterRef |-> <<>>]>>]
\* A1:C5 sorted ascending on its first and third column
AscendingSortState ==
    [ref |-> "A1:C5", startCol |-> <<1>>,
     conditions |-> <<[col |-> <<1>>, descending |-> FALSE, afterRef |-> <<>>],
                      [col |-> <<3>>, descending |-> FALSE,
                       afterRef |-> <<descendingAttr("0")>>]>>]
SortParts ==
    {worksheetPart(None), worksheetPart(Some(SortState)),
     worksheetPart(Some(WideSortState)), worksheetPart(Some(AscendingSortState)),
     worksheetPart(Some([SortState EXCEPT !.conditions = <<>>])), unreadablePart}
\* sheet3.xml belongs to no sheet of the workbook
sortArchive(first, second) ==
    [plainArchive(PackageBook, TRUE) EXCEPT
        !.entries = <<entryOf(partPath("worksheets", 1), first),
                      entryOf(partPath("worksheets", 2), second),
                      entryOf(partPath("worksheets", 3), worksheetPart(Some(SortState)))>>]
SortArchives == {sortArchive(first, second) : first \in SortParts, second \in SortParts}
\* the parts of the two sheets are sheet<numbers[1]>.xml and sheet<numbers[2]>.xml:
\* <<2, 1>> after the sheets were reordered, <<1, 3>> after the sheet between them
\* was deleted
renumberedArchive(numbers, parts) ==
    [plainArchive(PackageBook, TRUE) EXCEPT
        !.workbookRels = Some([k \in 1..2 |->
                                 relationship(k, partPath("worksheets", numbers[k]))]),
        !.entries = IF numbers[1] < numbers[2]
                    THEN <<entryOf(partPath("worksheets", numbers[1]), parts[1]),
                           entryOf(partPath("worksheets", numbers[2]), parts[2])>>
                    ELSE <<entryOf(partPath("worksheets", numbers[2]), parts[2]),
                           entryOf(partPath("worksheets", numbers[1]), parts[1])>>]
RenumberedArchives ==
    {renumberedArchive(numbers, <<first, second>>) :
        numbers \in {<<2, 1>>, <<1, 3>>},
        first \in {worksheetPart(None), worksheetPart(Some(SortState))},
        second \in {worksheetPart(None), worksheetPart(Some(WideSortState))}}

\* ---- what the reader attaches to a worksheet ----
sheetWith(ws, images, conditionalFormattings, autoFilter) ==
    [name |-> ws.name, cells |-> ws.cells, merges |-> ws.merges, hasMedia |-> ws.hasMedia,
     images |-> images, conditionalFormattings |-> conditionalFormattings,
     autoFilter |-> autoFilter]
ImageLists ==
    {<<>>, <<[imageId |-> 0, hasBuffer |-> TRUE]>>,
     <<[imageId |-> 0, hasBuffer |-> FALSE], [imageId |-> 1, hasBuffer |-> TRUE]>>}
FormattingLists ==
    {<<>>,
     <<[ref |-> <<"A1:B2">>, rules |-> <<[type |-> "cellIs"], [type |-> ""]>>]>>,
     <<[ref |-> <<>>, rules |-> <<[type |-> "dataBar"]>>],
       [ref |-> <<"C1:C9", "E1">>, rules |-> <<[type |-> ""]>>]>>}
AutoFilters ==
    {Undefined, [form |-> "string", ref |-> "A1:D14"],
     [form |-> "object", from |-> Some("A1"), to |-> Some("D14")],
     [form |-> "object", from |-> Some("A1"), to |-> None]}
DispImgCell == formulaCell("string", <<"DISPIMG(ID_1,1)">>, JsUndefined, NoStyle)
AttachedBooks ==
    {bookOf(<<sheetWith(sheetOf(<<"Data">>, cells, <<>>, FALSE), images, cfs, filter)>>,
            hasImage) :
        cells \in {<<>>, <<at(1, 2, DispImgCell)>>}, images \in ImageLists,
        cfs \in FormattingLists, filter \in AutoFilters, hasImage \in BOOLEAN}

\* ---- rows and columns with a height, a width or the hidden flag ----
\* worksheet.columns is the array of the columns the reader built, from 0-based
\* index to [width, hidden] or Null (width 0: no width); worksheet.rows the rows
\* eachRow visits that carry a height or the hidden flag, by 0-based index
sheetLaidOut(ws, columns, rows) ==
    [name |-> ws.name, cells |-> ws.cells, merges |-> ws.merges, hasMedia |-> ws.hasMedia,
     columns |-> columns, rows |-> rows]
ColumnArrays ==
    {Empty,
     2 :> [width |-> 20, hidden |-> FALSE],
     (0 :> Null) @@ (3 :> [width |-> 0, hidden |-> FALSE]),
     (1 :> [width |-> 0, hidden |-> TRUE]) @@ (29 :> [width |-> 10, hidden |-> FALSE])}
RowArrays ==
    {Empty,
     1 :> [height |-> 30, hidden |-> FALSE],
     (0 :> [height |-> 0, hidden |-> FALSE]) @@ (1200 :> [height |-> 0, hidden |-> TRUE])}
LaidOutBooks ==
    {bookOf(<<sheetLaidOut(sheetOf(<<"Data">>, cells, <<>>, FALSE), columns, rows)>>, FALSE) :
        cells \in {<<>>, <<at(0, 0, plainCell("Number", JsNumber(42), NoStyle))>>,
                   <<at(1000, 26, plainCell("Number", JsNumber(42), NoStyle))>>},
        columns \in ColumnArrays, rows \in RowArrays}

\* ---- file names ----
FileNames ==
    {XlsxName,
     <<<<"B", "o", "o", "k">>, <<"X", "L", "S", "X">>>>,
     <<<<"b", "o", "o", "k">>, <<"v", "2">>, <<"x", "l", "s">>>>,
     <<<<"d", "a", "t", "a">>, <<"c", "s", "v">>>>,
     <<<<"n", "o", "t", "e", "s">>, <<"t", "x", "t">>>>,
     <<<<"b", "o", "o", "k">>, <<"x", "l", "s", "x">>, <<"b", "a", "k">>>>,
     <<<<"x", "l", "s", "x">>>>,
     <<<<"b", "o", "o", "k">>, <<>>>>}

Calls ==
    {callOf(XlsxName, TRUE, wb, plainArchive(wb, TRUE)) : wb \in Workbooks}
    \cup {callOf(XlsxName, images, wb, plainArchive(wb, TRUE)) :
            wb \in AttachedBooks, images \in BOOLEAN}
    \cup {callOf(XlsxName, TRUE, wb, plainArchive(wb, TRUE)) : wb \in LaidOutBooks}
    \cup {callOf(XlsxName, TRUE, PackageBook, zip) :
            zip \in ChartArchives \cup PivotArchives \cup SortArchives
                    \cup RenumberedArchives \cup TypedArchives}
    \cup {callOf(XlsxName, TRUE, TwinBook, chartArchive(TwinBook, "full", anchors, TRUE)) :
            anchors \in AnchorLists}
    \cup {callOf(name, images, PackageBook, plainArchive(PackageBook, loads)) :
            name \in FileNames, images \in BOOLEAN, loads \in BOOLEAN}

(***************************************************************************)
(* The steps of importFile.  pc is the position of the call:               *)
(*   "importFile"  not yet called                                          *)
(*   "load"        in importExcelWithImages, awaiting the reader           *)
(*   "sheets", "sheet"      in the forEach over the worksheets             *)
(*   "charts", "pivots", "sorts"   in an extractor, awaiting a read        *)
(*   "beforePivots", "beforeSorts", "return"   between two extractors      *)
(*   "done", "csv"          resolved with importResult, by                 *)
(*                          importExcelWithImages and by importCsv         *)
(*   "failed"               rejected with rejection                        *)
(***************************************************************************)
IdleChart == ranges = <<>> /\ dataRange = NotRun
IdlePivot == pivotTableXml = Null /\ pivotTable = NotRun
IdleFmt   == numFmt = <<>> /\ formatResult = NotRun
IdleColor == color = Null /\ resolved = NotRun
IdleDate ==
    /\ timeZone = 0 /\ date = NotRun /\ serial = NotRun /\ restored = NotRun
    /\ formatCall = NotRun /\ parseCall = NotRun
IdleClip == rangeStr = Null /\ maxRows = 0 /\ maxCols = 0 /\ clippedRange = NotRun
IdleHost ==
    /\ importedPivotTables = <<>> /\ addPc = "idle" /\ tableIndex = 1 /\ fieldIndex = 1
    /\ addedFields = <<>> /\ requested = {} /\ rendered = <<>> /\ disposeCalls = <<>>
    /\ timeoutArmed = FALSE /\ successCount = 0
IdleFacade == IdleClip /\ IdleHost
IdleImages ==
    /\ importedImages = <<>> /\ options = NotRun /\ fWorkbook = FALSE /\ imageIndex = 0
    /\ insertResult = NotRun /\ progressCalls = <<>> /\ attempted = <<>>
    /\ insertPc = "idle"
IdleMapper ==
    /\ pc = "idle" /\ workbook = Null /\ idCounter = 0 /\ univerWorkbook = NotRun
    /\ sheetIndex = 0 /\ sheetKey = <<>> /\ cellIndex = 1 /\ mergeIndex = 1
    /\ cellData = Empty /\ mergeData = <<>> /\ maxRow = 0 /\ maxCol = 0
    /\ allImages = <<>> /\ sheetNameToIdMap = Empty /\ sheetIndexToIdMap = Empty
    /\ importResult = NotRun
    /\ fileName = <<>> /\ includeImages = TRUE /\ archive = Null
    /\ allConditionalFormats = Empty /\ allFilters = Empty /\ allSorts = Empty
    /\ allCharts = Empty /\ pivotTables = <<>> /\ rejection = NotRun
    /\ entryIndex = 1 /\ sheetDrawingMap = <<>> /\ charts = Empty /\ cacheMap = Empty
    /\ sorts = Empty /\ started = <<>>
    /\ resumedAt = 0 /\ issued = {} /\ suspended = NotRun /\ reference = NotRun

\* the local state of a call of importFile that has not begun
freshCall(call) ==
    [pc |-> "importFile", workbook |-> call.workbook, univerWorkbook |-> NotRun,
     sheetIndex |-> 0, sheetKey |-> <<>>, cellIndex |-> 1, mergeIndex |-> 1,
     cellData |-> Empty, mergeData |-> <<>>, maxRow |-> 0, maxCol |-> 0,
     allImages |-> <<>>, sheetNameToIdMap |-> Empty, sheetIndexToIdMap |-> Empty,
     importResult |-> NotRun,
     fileName |-> call.fileName, includeImages |-> call.includeImages,
     archive |-> call.archive,
     allConditionalFormats |-> Empty, allFilters |-> Empty, allSorts |-> Empty,
     allCharts |-> Empty, pivotTables |-> <<>>, rejection |-> NotRun,
     entryIndex |-> 1, sheetDrawingMap |-> <<>>, charts |-> Empty, cacheMap |-> Empty,
     sorts |-> Empty, started |-> <<>>, issued |-> {}]

\* the local state of the running call
locals ==
    [pc |-> pc, workbook |-> workbook, univerWorkbook |-> univerWorkbook,
     sheetIndex |-> sheetIndex, sheetKey |-> sheetKey, cellIndex |-> cellIndex,
     mergeIndex |-> mergeIndex, cellData |-> cellData, mergeData |-> mergeData,
     maxRow |-> maxRow, maxCol |-> maxCol, allImages |-> allImages,
     sheetNameToIdMap |-> sheetNameToIdMap, sheetIndexToIdMap |-> sheetIndexToIdMap,
     importResult |-> importResult,
     fileName |-> fileName, includeImages |-> includeImages, archive |-> archive,
     allConditionalFormats |-> allConditionalFormats, allFilters |-> allFilters,
     allSorts |-> allSorts, allCharts |-> allCharts, pivotTables |-> pivotTables,
     rejection |-> rejection,
     entryIndex |-> entryIndex, sheetDrawingMap |-> sheetDrawingMap, charts |-> charts,
     cacheMap |-> cacheMap, sorts |-> sorts, started |-> started,
     issued |-> issued \cup ((resumedAt + 1)..idCounter)]

\* the running call is in the state l
Running(l) ==
    /\ pc = l.pc /\ workbook = l.workbook /\ univerWorkbook = l.univerWorkbook
    /\ sheetIndex = l.sheetIndex /\ sheetKey = l.sheetKey /\ cellIndex = l.cellIndex
    /\ mergeIndex = l.mergeIndex /\ cellData = l.cellData /\ mergeData = l.mergeData
    /\ maxRow = l.maxRow /\ maxCol = l.maxCol /\ allImages = l.allImages
    /\ sheetNameToIdMap = l.sheetNameToIdMap /\ sheetIndexToIdMap = l.sheetIndexToIdMap
    /\ importResult = l.importResult
    /\ fileName = l.fileName /\ includeImages = l.includeImages /\ archive = l.archive
    /\ allConditionalFormats = l.allConditionalFormats /\ allFilters = l.allFilters
    /\ allSorts = l.allSorts /\ allCharts = l.allCharts /\ pivotTables = l.pivotTables
    /\ rejection = l.rejection
    /\ entryIndex = l.entryIndex /\ sheetDrawingMap = l.sheetDrawingMap /\ charts = l.charts
    /\ cacheMap = l.cacheMap /\ sorts = l.sorts /\ started = l.started
    /\ issued = l.issued

InitMapper ==
    /\ \E call \in Calls : Running(freshCall(call))
    /\ idCounter = 0 /\ resumedAt = 0 /\ suspended = NotRun /\ reference = NotRun

Init == InitMapper /\ IdleChart /\ IdlePivot /\ IdleFmt /\ IdleColor /\ IdleDate /\ IdleImages /\ IdleFacade

helpers == <<chartVars, pivotVars, fmtVars, colorVars, dateVars, imageVars, facadeVars>>
others == <<helpers, importVars>>

\* file.name.split('.').pop()?.toLowerCase()
fileExtOf(name) == toLowerCase(name[Len(name)])

SupportedExtensions ==
    {<<"x", "l", "s", "x">>, <<"x", "l", "s">>, <<"c", "s", "v">>}

\* importFile and handleFileImport hand an Excel file to importExcelWithImages
ImportFile ==
    /\ pc = "importFile"
    /\ fileExtOf(fileName) \in {<<"x", "l", "s", "x">>, <<"x", "l", "s">>}
    /\ pc' = "load"
    /\ UNCHANGED <<workbook, idCounter, univerWorkbook, sheetIndex, sheetKey, cellIndex,
                   mergeIndex, cellData, mergeData, maxRow, maxCol, allImages, sheetNameToIdMap,
                   sheetIndexToIdMap, importResult, others>>

\* importFile throws: !fileExt || !['xlsx', 'xls', 'csv'].includes(fileExt)
UnsupportedFormat ==
    /\ pc = "importFile"
    /\ fileExtOf(fileName) = <<>> \/ fileExtOf(fileName) \notin SupportedExtensions
    /\ pc' = "failed"
    /\ rejection' = [error |-> "unsupported format", fileExt |-> fileExtOf(fileName)]
    /\ UNCHANGED <<workbook, idCounter, univerWorkbook, sheetIndex, sheetKey, cellIndex,
                   mergeIndex, cellData, mergeData, maxRow, maxCol, allImages, sheetNameToIdMap,
                   sheetIndexToIdMap, importResult, helpers, inputVars,
                   collectorVars, extractorVars, loopVars>>

\* handleFileImport with type csv: the snapshot of importCsv and empty collections
ImportCsv ==
    /\ pc = "importFile"
    /\ fileExtOf(fileName) = <<"c", "s", "v">>
    /\ archive.loads
    /\ importResult' = [workbookData |-> [form |-> "csv", name |-> fileName],
                        images |-> <<>>, conditionalFormats |-> Empty, filters |-> Empty,
                        sorts |-> Empty, charts |-> Empty, pivotTables |-> <<>>]
    /\ pc' = "csv"
    /\ UNCHANGED <<workbook, idCounter, univerWorkbook, sheetIndex, sheetKey, cellIndex,
                   mergeIndex, cellData, mergeData, maxRow, maxCol, allImages, sheetNameToIdMap,
                   sheetIndexToIdMap, others>>

\* importCsv throws and handleFileImport rethrows
CsvFails ==
    /\ pc = "importFile"
    /\ fileExtOf(fileName) = <<"c", "s", "v">>
    /\ ~archive.loads
    /\ pc' = "failed"
    /\ rejection' = [error |-> "csv import failed"]
    /\ UNCHANGED <<workbook, idCounter, univerWorkbook, sheetIndex, sheetKey, cellIndex,
                   mergeIndex, cellData, mergeData, maxRow, maxCol, allImages, sheetNameToIdMap,
                   sheetIndexToIdMap, importResult, helpers, inputVars,
                   collectorVars, extractorVars, loopVars>>

\* workbook.xlsx.load succeeds and the empty snapshot is built
LoadWorkbook ==
    /\ pc = "load"
    /\ archive.loads
    /\ pc' = "sheets"
    /\ idCounter' = idCounter + 1
    /\ univerWorkbook' = [id |-> <<"workbook", idCounter + 1>>, sheetOrder |-> <<>>,
                          sheets |-> Empty]
    /\ UNCHANGED <<workbook, sheetIndex, sheetKey, cellIndex, mergeIndex, cellData, mergeData,
                   maxRow, maxCol, allImages, sheetNameToIdMap, sheetIndexToIdMap, importResult, others>>

\* a failed load that is logged and followed by the mapping of an empty workbook
LoadFailsAndContinues ==
    /\ pc = "load"
    /\ ~archive.loads
    /\ pc' = "sheets"
    /\ rejection' = [error |-> "cannot load the Excel file"]
    /\ idCounter' = idCounter + 1
    /\ univerWorkbook' = [id |-> <<"workbook", idCounter + 1>>, sheetOrder |-> <<>>,
                          sheets |-> Empty]
    /\ UNCHANGED <<workbook, sheetIndex, sheetKey, cellIndex,
                   mergeIndex, cellData, mergeData, maxRow, maxCol, allImages, sheetNameToIdMap,
                   sheetIndexToIdMap, importResult, helpers, inputVars,
                   collectorVars, extractorVars, loopVars>>

\* workbook.xlsx.load throws and the import rejects
LoadFails ==
    /\ pc = "load"
    /\ ~archive.loads
    /\ pc' = "failed"
    /\ rejection' = [error |-> "cannot load the Excel file"]
    /\ UNCHANGED <<workbook, idCounter, univerWorkbook, sheetIndex, sheetKey, cellIndex,
                   mergeIndex, cellData, mergeData, maxRow, maxCol, allImages, sheetNameToIdMap,
                   sheetIndexToIdMap, importResult, helpers, inputVars,
                   collectorVars, extractorVars, loopVars>>

\* if (!worksheet) return
SkipSheet ==
    /\ pc = "sheets"
    /\ sheetIndex < Len(workbook.worksheets)
    /\ workbook.worksheets[sheetIndex + 1] = Undefined
    /\ sheetIndex' = sheetIndex + 1
    /\ UNCHANGED <<pc, workbook, idCounter, univerWorkbook, sheetKey, cellIndex, mergeIndex,
                   cellData, mergeData, maxRow, maxCol, allImages, sheetNameToIdMap,
                   sheetIndexToIdMap, importResult, others>>

\* the head of the forEach body: a fresh id, the empty collections, the registry entries
BeginSheet ==
    /\ pc = "sheets"
    /\ sheetIndex < Len(workbook.worksheets)
    /\ workbook.worksheets[sheetIndex + 1] # Undefined
    /\ LET worksheet == workbook.worksheets[sheetIndex + 1]
           key == <<"sheet", idCounter + 1>>
       IN /\ sheetKey' = key
          /\ idCounter' = idCounter + 1
          /\ univerWorkbook' = [univerWorkbook EXCEPT !.sheetOrder = pushSheetKey(@, key)]
          /\ sheetNameToIdMap' =
                assign(sheetNameToIdMap, flags({nameOrDefault(worksheet, sheetIndex)}, key))
          /\ sheetIndexToIdMap' = assign(sheetIndexToIdMap, flags({sheetIndex}, key))
    /\ cellData' = Empty /\ mergeData' = <<>> /\ maxRow' = 0 /\ maxCol' = 0
    /\ cellIndex' = 1 /\ mergeIndex' = 1
    /\ pc' = "sheet"
    /\ UNCHANGED <<workbook, sheetIndex, allImages, importResult, others>>

\* is anything stored for a resolved cell: hasValue || hasFormula
isKept(cell) ==
    ~isBlank(resolveRawValue(cell)) \/ (cell.type = "Formula" /\ formulaTruthy(cell))

\* cellData after the callback of eachCell has run on one cell
mapCell(cd, cell, rowIndex, colIndex) ==
    IF cell.type = "Null"
    THEN IF convertCellStyle(cell.style) # Undefined
         THEN setCell(cd, rowIndex, colIndex, flags({"s"}, convertCellStyle(cell.style)))
         ELSE cd
    ELSE IF isDispImg(cell) \/ ~isKept(cell) THEN cd
    ELSE IF DOMAIN cellValueOf(cell) # {}
         THEN setCell(cd, rowIndex, colIndex, cellValueOf(cell))
         ELSE withRow(cd, rowIndex)

\* one call of the callback of row.eachCell
MapCell ==
    /\ pc = "sheet"
    /\ LET worksheet == workbook.worksheets[sheetIndex + 1] IN
       /\ cellIndex <= Len(worksheet.cells)
       /\ LET e == worksheet.cells[cellIndex]
              foundImage == workbook.hasImage \/ worksheet.hasMedia
              cellImage == [id |-> <<"cell-img", idCounter + 1>>, type |-> "cell",
                            sheetId |-> sheetKey,
                            sheetName |-> escapeSheetName(nameOrDefault(worksheet, sheetIndex)),
                            position |-> [column |-> e.col, row |-> e.row,
                                          columnOffset |-> 0, rowOffset |-> 0],
                            size |-> [width |-> 100, height |-> 100]]
          IN /\ maxRow' = Max2(maxRow, e.row)
             /\ maxCol' = Max2(maxCol, e.col)
             /\ cellData' = mapCell(cellData, e.cell, e.row, e.col)
             /\ IF isDispImg(e.cell) /\ foundImage
                THEN allImages' = Append(allImages, cellImage) /\ idCounter' = idCounter + 1
                ELSE UNCHANGED <<allImages, idCounter>>
    /\ cellIndex' = cellIndex + 1
    /\ UNCHANGED <<pc, workbook, univerWorkbook, sheetIndex, sheetKey, mergeIndex, mergeData,
                   sheetNameToIdMap, sheetIndexToIdMap, importResult, others>>

\* one call of the callback of worksheet.model.merges.forEach
MapMerge ==
    /\ pc = "sheet"
    /\ LET worksheet == workbook.worksheets[sheetIndex + 1] IN
       /\ cellIndex > Len(worksheet.cells)
       /\ mergeIndex <= Len(worksheet.merges)
       /\ LET merge == worksheet.merges[mergeIndex]
              masterCell == getCell(worksheet, merge.startRow, merge.startColumn)
          IN /\ mergeData' = Append(mergeData, merge)
             /\ cellData' = IF masterCell.style.border # None
                            THEN propagateBorders(cellData, merge, masterCell.style.border[1], 1)
                            ELSE cellData
    /\ mergeIndex' = mergeIndex + 1
    /\ UNCHANGED <<pc, workbook, idCounter, univerWorkbook, sheetIndex, sheetKey, cellIndex,
                   maxRow, maxCol, allImages, sheetNameToIdMap, sheetIndexToIdMap, importResult, others>>

\* worksheet.conditionalFormattings, worksheet.autoFilter and worksheet.getImages():
\* what the reader attached to the worksheet, nothing when it attached nothing
conditionalFormattings(worksheet) ==
    IF "conditionalFormattings" \in DOMAIN worksheet THEN worksheet.conditionalFormattings
    ELSE <<>>
autoFilter(worksheet) ==
    IF "autoFilter" \in DOMAIN worksheet THEN worksheet.autoFilter ELSE Undefined
getImages(worksheet) == IF "images" \in DOMAIN worksheet THEN worksheet.images ELSE <<>>

\* worksheet.columns, and the rows of the walk that carry row information
worksheetColumns(worksheet) ==
    IF "columns" \in DOMAIN worksheet THEN worksheet.columns ELSE Empty
worksheetRows(worksheet) == IF "rows" \in DOMAIN worksheet THEN worksheet.rows ELSE Empty

\* rowInfo of the callback of eachRow and whether it is stored
rowInfo(row) ==
    assign(IF row.height > 0 THEN flags({"h"}, row.height) ELSE Empty,
           flags({"hd"}, IF row.hidden THEN 1 ELSE 0))
hasRowInfo(row) == row.height > 0 \/ row.hidden
rowDataOf(rows) == [i \in {j \in DOMAIN rows : hasRowInfo(rows[j])} |-> rowInfo(rows[i])]

\* colInfo of the callback of worksheet.columns.forEach: the width times 7.5
colInfo(column) ==
    assign(IF column.width > 0 THEN flags({"w"}, (column.width * 15) \div 2) ELSE Empty,
           flags({"hd"}, IF column.hidden THEN 1 ELSE 0))
hasColInfo(column) == column.width > 0 \/ column.hidden
columnDataOf(columns) ==
    [i \in {j \in DOMAIN columns : columns[j] # Null /\ hasColInfo(columns[j])} |->
        colInfo(columns[i])]

\* the largest index of a sparse array, 0 when it is empty
lastIndex(array) ==
    IF DOMAIN array = {} THEN 0
    ELSE CHOOSE i \in DOMAIN array : \A j \in DOMAIN array : j <= i

\* the head of convertConditionalFormatRuleForFacade: null without a rule type;
\* of the converted rule the type, the ranges and the default priority are kept
convertConditionalFormatRuleForFacade(rule, rangeRefs, index) ==
    IF rule.type = "" THEN Null
    ELSE [type |-> rule.type, ranges |-> rangeRefs, priority |-> index]

RECURSIVE convertRules(_, _, _)
convertRules(rules, rangeRefs, i) ==
    IF i > Len(rules) THEN <<>>
    ELSE LET cfRule == convertConditionalFormatRuleForFacade(rules[i], rangeRefs, i - 1) IN
         (IF cfRule = Null THEN <<>> ELSE <<cfRule>>) \o convertRules(rules, rangeRefs, i + 1)

\* sheetCfRules of one worksheet; cf.ref is the list of its ranges, <<>> for no ref
RECURSIVE sheetCfRules(_, _)
sheetCfRules(cfs, i) ==
    IF i > Len(cfs) THEN <<>>
    ELSE (IF cfs[i].ref = <<>> THEN <<>> ELSE convertRules(cfs[i].rules, cfs[i].ref, 1))
         \o sheetCfRules(cfs, i + 1)

\* parseAutoFilter: the text itself, `${from}:${to}` of an object, or null
parseAutoFilter(filter) ==
    IF filter = Undefined THEN Null
    ELSE IF filter.form = "string" THEN [form |-> "a1", text |-> filter.ref]
    ELSE IF filter.from = None \/ filter.to = None THEN Null
    ELSE [form |-> "a1", from |-> filter.from[1], to |-> filter.to[1]]

\* the floating images of one worksheet: one record for every image with a buffer
RECURSIVE floatingImages(_, _, _, _, _)
floatingImages(images, i, sheetId, sheetName, counter) ==
    IF i > Len(images) THEN <<>>
    ELSE IF ~images[i].hasBuffer
    THEN floatingImages(images, i + 1, sheetId, sheetName, counter)
    ELSE <<[id |-> <<"drawing", counter + 1>>, type |-> "floating", sheetId |-> sheetId,
            sheetName |-> sheetName, imageId |-> images[i].imageId, title |-> i]>>
         \o floatingImages(images, i + 1, sheetId, sheetName, counter + 1)

\* the tail of the forEach body: conditional formats, filter, floating images,
\* then the sheet record is built and stored under its id.  The reader defines
\* neither worksheet.drawings nor worksheet._charts: worksheetCharts stays empty.
FinishSheet ==
    /\ pc = "sheet"
    /\ LET worksheet == workbook.worksheets[sheetIndex + 1]
           sheetName == escapeSheetName(nameOrDefault(worksheet, sheetIndex))
           cfRules == sheetCfRules(conditionalFormattings(worksheet), 1)
           filterRange == parseAutoFilter(autoFilter(worksheet))
           images == IF includeImages
                     THEN floatingImages(getImages(worksheet), 1, sheetKey, sheetName, idCounter)
                     ELSE <<>>
           rowData == rowDataOf(worksheetRows(worksheet))
           columnData == columnDataOf(worksheetColumns(worksheet))
           \* eachRow raises maxRow on the rows without cells too
           walkedRow == Max2(maxRow, lastIndex(worksheetRows(worksheet)))
           univerSheet == [id |-> sheetKey,
                           name |-> sheetName,
                           rowCount |-> Max2(DEFAULT_ROW_COUNT, walkedRow + 1),
                           columnCount |-> Max2(DEFAULT_COLUMN_COUNT, maxCol + 1),
                           cellData |-> cellData,
                           \* None stands for undefined
                           rowData |-> IF DOMAIN rowData # {} THEN Some(rowData) ELSE None,
                           columnData |-> IF DOMAIN columnData # {} THEN Some(columnData)
                                          ELSE None,
                           mergeData |-> IF Len(mergeData) > 0 THEN mergeData ELSE Undefined]
       IN /\ cellIndex > Len(worksheet.cells)
          /\ mergeIndex > Len(worksheet.merges)
          /\ allConditionalFormats' =
                IF Len(cfRules) > 0 THEN assign(allConditionalFormats, flags({sheetKey}, cfRules))
                ELSE allConditionalFormats
          /\ allFilters' =
                IF filterRange # Null
                THEN assign(allFilters, flags({sheetKey}, [range |-> filterRange]))
                ELSE allFilters
          /\ allImages' = allImages \o images
          /\ idCounter' = idCounter + Len(images)
          /\ univerWorkbook' =
                [univerWorkbook EXCEPT !.sheets = assign(@, flags({sheetKey}, univerSheet))]
    /\ sheetIndex' = sheetIndex + 1
    /\ pc' = "sheets"
    /\ UNCHANGED <<workbook, sheetKey, cellIndex, mergeIndex, cellData, mergeData,
                   maxRow, maxCol, sheetNameToIdMap, sheetIndexToIdMap, importResult,
                   helpers, inputVars, allSorts, allCharts, pivotTables, rejection,
                   extractorVars, loopVars>>

\* the value an extractor starts from
startOf(value, counter) == [value |-> value, idCounter |-> counter, thrown |-> FALSE]

\* parseChartsFromXlsx called between two sheets of the forEach
OpenChartsEarly ==
    /\ pc = "sheets"
    /\ sheetIndex <= Len(workbook.worksheets)
    /\ started' = Append(started, "charts")
    /\ charts' = Empty
    /\ entryIndex' = 1
    /\ sheetDrawingMap' =
          IF archive.workbookXml = None \/ archive.workbookRels = None THEN <<>>
          ELSE LET r == sheetDrawingLoop(archive, sheetRIdMapOf(archive),
                                         rIdToPathMapOf(archive), 1, startOf(<<>>, idCounter))
               IN IF r.thrown THEN <<>> ELSE r.value
    /\ pc' = "charts"
    /\ UNCHANGED <<workbook, idCounter, univerWorkbook, sheetIndex, sheetKey, cellIndex,
                   mergeIndex, cellData, mergeData, maxRow, maxCol, allImages, sheetNameToIdMap,
                   sheetIndexToIdMap, importResult, helpers, inputVars, collectorVars,
                   rejection, cacheMap, sorts, loopVars>>

\* parseChartsFromXlsx is called: the archive is opened and sheetDrawingMap built
OpenCharts ==
    /\ pc = "sheets"
    /\ sheetIndex = Len(workbook.worksheets)
    /\ started' = Append(started, "charts")
    /\ charts' = Empty
    /\ entryIndex' = 1
    /\ sheetDrawingMap' =
          IF archive.workbookXml = None \/ archive.workbookRels = None THEN <<>>
          ELSE LET r == sheetDrawingLoop(archive, sheetRIdMapOf(archive),
                                         rIdToPathMapOf(archive), 1, startOf(<<>>, idCounter))
               IN IF r.thrown THEN <<>> ELSE r.value
    /\ pc' = "charts"
    /\ UNCHANGED <<workbook, idCounter, univerWorkbook, sheetIndex, sheetKey, cellIndex,
                   mergeIndex, cellData, mergeData, maxRow, maxCol, allImages, sheetNameToIdMap,
                   sheetIndexToIdMap, importResult, helpers, inputVars, collectorVars,
                   rejection, cacheMap, sorts, loopVars>>

\* one round of the loop over sheetDrawingMap; a rejected read ends the loop
ParseDrawing ==
    /\ pc = "charts"
    /\ entryIndex <= Len(sheetDrawingMap)
    /\ LET r == parseDrawing(archive, sheetDrawingMap[entryIndex], sheetNameToIdMap,
                             startOf(charts, idCounter))
       IN /\ charts' = r.value
          /\ idCounter' = r.idCounter
          /\ entryIndex' = IF r.thrown THEN Len(sheetDrawingMap) + 1 ELSE entryIndex + 1
    /\ UNCHANGED <<pc, workbook, univerWorkbook, sheetIndex, sheetKey, cellIndex,
                   mergeIndex, cellData, mergeData, maxRow, maxCol, allImages, sheetNameToIdMap,
                   sheetIndexToIdMap, importResult, helpers, inputVars, collectorVars,
                   rejection, sheetDrawingMap, cacheMap, sorts, started, loopVars>>

\* allCharts[sheetId].push(...chartsArr) for every entry of parsedCharts
mergeCharts(all, parsed) ==
    [k \in DOMAIN all \cup DOMAIN parsed |->
        (IF k \in DOMAIN all THEN all[k] ELSE <<>>)
        \o (IF k \in DOMAIN parsed THEN parsed[k] ELSE <<>>)]

\* parseChartsFromXlsx has returned: its charts are merged into allCharts
MergeCharts ==
    /\ pc = "charts"
    /\ entryIndex > Len(sheetDrawingMap)
    /\ allCharts' = mergeCharts(allCharts, charts)
    /\ pc' = "beforePivots"
    /\ UNCHANGED <<workbook, idCounter, univerWorkbook, sheetIndex, sheetKey, cellIndex,
                   mergeIndex, cellData, mergeData, maxRow, maxCol, allImages, sheetNameToIdMap,
                   sheetIndexToIdMap, importResult, helpers, inputVars, allConditionalFormats,
                   allFilters, allSorts, pivotTables, rejection, extractorVars, loopVars>>

\* the sheets parsePivotTablesFromXlsx walks: none without workbook.xml or its
\* relationship file
pivotSheets(zip) ==
    IF zip.workbookXml = None \/ zip.workbookRels = None THEN <<>> ELSE sheetRIdMapOf(zip)

\* parsePivotTablesFromXlsx is called: the archive is opened and cacheMap built
OpenPivots ==
    /\ pc = "beforePivots"
    /\ started' = Append(started, "pivots")
    /\ pivotTables' = <<>>
    /\ LET r == IF pivotSheets(archive) = <<>> THEN startOf(Empty, idCounter)
                ELSE pivotCacheLoop(archive, cacheIdToRIdMapOf(archive),
                                    rIdToPathMapOf(archive), 1, startOf(Empty, idCounter))
       IN /\ cacheMap' = r.value
          /\ entryIndex' = IF r.thrown THEN Len(pivotSheets(archive)) + 1 ELSE 1
    /\ pc' = "pivots"
    /\ UNCHANGED <<workbook, idCounter, univerWorkbook, sheetIndex, sheetKey, cellIndex,
                   mergeIndex, cellData, mergeData, maxRow, maxCol, allImages, sheetNameToIdMap,
                   sheetIndexToIdMap, importResult, helpers, inputVars, allConditionalFormats,
                   allFilters, allSorts, allCharts, rejection, sheetDrawingMap, charts, sorts,
                   loopVars>>

\* one round of the loop over the sheets; a rejected read ends the loop
ParsePivotSheet ==
    /\ pc = "pivots"
    /\ entryIndex <= Len(pivotSheets(archive))
    /\ LET r == parsePivotSheet(archive, pivotSheets(archive)[entryIndex],
                                rIdToPathMapOf(archive), cacheMap, sheetNameToIdMap,
                                startOf(pivotTables, idCounter))
       IN /\ pivotTables' = r.value
          /\ idCounter' = r.idCounter
          /\ entryIndex' = IF r.thrown THEN Len(pivotSheets(archive)) + 1 ELSE entryIndex + 1
    /\ UNCHANGED <<pc, workbook, univerWorkbook, sheetIndex, sheetKey, cellIndex,
                   mergeIndex, cellData, mergeData, maxRow, maxCol, allImages, sheetNameToIdMap,
                   sheetIndexToIdMap, importResult, helpers, inputVars, allConditionalFormats,
                   allFilters, allSorts, allCharts, rejection, sheetDrawingMap, charts,
                   cacheMap, sorts, started, loopVars>>

\* parsePivotTablesFromXlsx has returned
ClosePivots ==
    /\ pc = "pivots"
    /\ entryIndex > Len(pivotSheets(archive))
    /\ pc' = "beforeSorts"
    /\ UNCHANGED <<workbook, idCounter, univerWorkbook, sheetIndex, sheetKey, cellIndex,
                   mergeIndex, cellData, mergeData, maxRow, maxCol, allImages, sheetNameToIdMap,
                   sheetIndexToIdMap, importResult, others>>

\* parseSortsFromXlsx is called
OpenSorts ==
    /\ pc = "beforeSorts"
    /\ started' = Append(started, "sorts")
    /\ sorts' = Empty
    /\ entryIndex' = 1
    /\ pc' = "sorts"
    /\ UNCHANGED <<workbook, idCounter, univerWorkbook, sheetIndex, sheetKey, cellIndex,
                   mergeIndex, cellData, mergeData, maxRow, maxCol, allImages, sheetNameToIdMap,
                   sheetIndexToIdMap, importResult, helpers, inputVars, collectorVars,
                   rejection, sheetDrawingMap, charts, cacheMap, loopVars>>

\* one round of the loop over the worksheet parts; a rejected read ends the loop
ParseSortSheet ==
    /\ pc = "sorts"
    /\ entryIndex <= Len(sheetEntries(archive))
    /\ LET r == parseSortSheet(sheetEntries(archive)[entryIndex], sheetIndexToIdMap,
                               startOf(sorts, idCounter))
       IN /\ sorts' = r.value
          /\ entryIndex' = IF r.thrown THEN Len(sheetEntries(archive)) + 1 ELSE entryIndex + 1
    /\ UNCHANGED <<pc, workbook, idCounter, univerWorkbook, sheetIndex, sheetKey, cellIndex,
                   mergeIndex, cellData, mergeData, maxRow, maxCol, allImages, sheetNameToIdMap,
                   sheetIndexToIdMap, importResult, helpers, inputVars, collectorVars,
                   rejection, sheetDrawingMap, charts, cacheMap, started, loopVars>>

\* parseSortsFromXlsx has returned: allSorts[sheetId] = sortInfo for every entry
MergeSorts ==
    /\ pc = "sorts"
    /\ entryIndex > Len(sheetEntries(archive))
    /\ allSorts' = assign(allSorts, sorts)
    /\ pc' = "return"
    /\ UNCHANGED <<workbook, idCounter, univerWorkbook, sheetIndex, sheetKey, cellIndex,
                   mergeIndex, cellData, mergeData, maxRow, maxCol, allImages, sheetNameToIdMap,
                   sheetIndexToIdMap, importResult, helpers, inputVars, allConditionalFormats,
                   allFilters, allCharts, pivotTables, rejection, extractorVars, loopVars>>

\* the end of importExcelWithImages: the result is handed to the caller
Return ==
    /\ pc = "return"
    /\ importResult' = [workbookData |-> univerWorkbook, images |-> allImages,
                        conditionalFormats |-> allConditionalFormats, filters |-> allFilters,
                        sorts |-> allSorts, charts |-> allCharts, pivotTables |-> pivotTables]
    /\ pc' = "done"
    /\ UNCHANGED <<workbook, idCounter, univerWorkbook, sheetIndex, sheetKey, cellIndex,
                   mergeIndex, cellData, mergeData, maxRow, maxCol, allImages, sheetNameToIdMap,
                   sheetIndexToIdMap, others>>

Next ==
    \/ ImportFile \/ UnsupportedFormat \/ ImportCsv \/ CsvFails
    \/ LoadWorkbook \/ LoadFails \/ SkipSheet \/ BeginSheet
    \/ MapCell \/ MapMerge \/ FinishSheet
    \/ OpenCharts \/ ParseDrawing \/ MergeCharts
    \/ OpenPivots \/ ParsePivotSheet \/ ClosePivots
    \/ OpenSorts \/ ParseSortSheet \/ MergeSorts \/ Return

Spec == Init /\ [][Next]_vars

(***************************************************************************)
(* Two calls of importFile on one event loop.  The calls share nothing     *)
(* but nanoid; at an await of the running call the event loop may resume   *)
(* the other call, whose local state is kept in suspended.  A call that    *)
(* ran on its own before the two leaves its outcome in reference.          *)
(***************************************************************************)
\* the positions at which a call is not on the stack: not yet called, at an
\* await (file read, archive load, a read of an extractor), or settled
settled == {"done", "csv", "failed"}
atAwait(position) ==
    position \in {"importFile", "load", "charts", "pivots", "sorts"} \cup settled

\* a resumption that finds the registry of the call that ran in between
restoreSharedRegistry(saved, running) ==
    [saved EXCEPT !.sheetNameToIdMap = assign(@, running.sheetNameToIdMap)]

\* the local state a call is resumed with: its own, whatever the call that
\* ran in between has built
restore(saved, running) == saved

\* the running call continues in the state l
Resume(l) ==
    /\ pc' = l.pc /\ workbook' = l.workbook /\ univerWorkbook' = l.univerWorkbook
    /\ sheetIndex' = l.sheetIndex /\ sheetKey' = l.sheetKey /\ cellIndex' = l.cellIndex
    /\ mergeIndex' = l.mergeIndex /\ cellData' = l.cellData /\ mergeData' = l.mergeData
    /\ maxRow' = l.maxRow /\ maxCol' = l.maxCol /\ allImages' = l.allImages
    /\ sheetNameToIdMap' = l.sheetNameToIdMap /\ sheetIndexToIdMap' = l.sheetIndexToIdMap
    /\ importResult' = l.importResult
    /\ fileName' = l.fileName /\ includeImages' = l.includeImages /\ archive' = l.archive
    /\ allConditionalFormats' = l.allConditionalFormats /\ allFilters' = l.allFilters
    /\ allSorts' = l.allSorts /\ allCharts' = l.allCharts /\ pivotTables' = l.pivotTables
    /\ rejection' = l.rejection
    /\ entryIndex' = l.entryIndex /\ sheetDrawingMap' = l.sheetDrawingMap /\ charts' = l.charts
    /\ cacheMap' = l.cacheMap /\ sorts' = l.sorts /\ started' = l.started
    /\ issued' = l.issued

\* the files of the two calls
PairCalls ==
    {callOf(XlsxName, TRUE,
            bookOf(<<Undefined,
                     sheetOf(<<"Data">>,
                             <<at(0, 0, plainCell("Number", JsNumber(42),
                                                  BorderStyle(Some(flags({"top"}, Thin)))))>>,
                             <<region(0, 0, 0, 1)>>, FALSE)>>, FALSE),
            plainArchive(bookOf(<<Undefined, sheetOf(<<"Data">>, <<>>, <<>>, FALSE)>>, FALSE),
                         TRUE)),
     callOf(XlsxName, TRUE, PackageBook,
            chartArchive(PackageBook, "full", <<chartAnchor("rId1"), chartAnchor("rId2")>>, TRUE)),
     callOf(XlsxName, TRUE, PackageBook, pivotArchive("good", <<"good">>, <<"Data">>)),
     callOf(XlsxName, TRUE, PackageBook,
            sortArchive(worksheetPart(Some(SortState)), worksheetPart(None))),
     callOf(XlsxName, TRUE,
            bookOf(<<sheetWith(sheetOf(<<"Data">>, <<at(1, 2, DispImgCell)>>, <<>>, FALSE),
                               <<[imageId |-> 0, hasBuffer |-> TRUE]>>,
                               <<[ref |-> <<"A1:B2">>, rules |-> <<[type |-> "cellIs"]>>]>>,
                               [form |-> "string", ref |-> "A1:D14"])>>, TRUE),
            plainArchive(bookOf(<<sheetOf(<<"Data">>, <<>>, <<>>, FALSE)>>, FALSE), TRUE)),
     callOf(XlsxName, TRUE, PackageBook, plainArchive(PackageBook, FALSE)),
     callOf(<<<<"d", "a", "t", "a">>, <<"c", "s", "v">>>>, TRUE, PackageBook,
            plainArchive(PackageBook, TRUE)),
     callOf(<<<<"d", "a", "t", "a">>, <<"c", "s", "v">>>>, TRUE, PackageBook,
            plainArchive(PackageBook, FALSE)),
     callOf(<<<<"n", "o", "t", "e", "s">>, <<"t", "x", "t">>>>, TRUE, PackageBook,
            plainArchive(PackageBook, TRUE))}

\* the running call has settled on its own: its outcome is kept, the same file is
\* imported once more and a second call is made on some file
StartPair ==
    /\ reference = NotRun /\ suspended = NotRun
    /\ pc \in settled
    /\ reference' = [pc |-> pc, importResult |-> importResult, rejection |-> rejection,
                      call |-> callOf(fileName, includeImages, workbook, archive)]
    /\ Resume(freshCall(callOf(fileName, includeImages, workbook, archive)))
    /\ \E other \in PairCalls : suspended' = freshCall(other)
    /\ resumedAt' = idCounter
    /\ UNCHANGED <<idCounter, helpers>>

\* the running call is at an await or has settled, and the event loop resumes
\* the other call
Switch ==
    /\ suspended # NotRun
    /\ atAwait(pc)
    /\ suspended.pc \notin settled
    /\ Resume(restore(suspended, locals))
    /\ suspended' = locals
    /\ resumedAt' = idCounter
    /\ UNCHANGED <<idCounter, reference, helpers>>

InitTwo ==
    /\ \E call \in PairCalls : Running(freshCall(call))
    /\ idCounter = 0 /\ resumedAt = 0 /\ suspended = NotRun /\ reference = NotRun
    /\ IdleChart /\ IdlePivot /\ IdleFmt /\ IdleColor /\ IdleDate /\ IdleImages /\ IdleFacade

NextTwo ==
    \/ ImportFile \/ UnsupportedFormat \/ ImportCsv \/ CsvFails
    \/ LoadWorkbook \/ LoadFails \/ SkipSheet \/ BeginSheet
    \/ MapCell \/ MapMerge \/ FinishSheet
    \/ OpenCharts \/ ParseDrawing \/ MergeCharts
    \/ OpenPivots \/ ParsePivotSheet \/ ClosePivots
    \/ OpenSorts \/ ParseSortSheet \/ MergeSorts \/ Return
    \/ StartPair \/ Switch

SpecTwo == InitTwo /\ [][NextTwo]_vars

(***************************************************************************)
(* The Date Engine.  A time value counts whole minutes since               *)
(* 1970-01-01T00:00Z (the code's milliseconds divided by 60000; seconds    *)
(* and milliseconds are 0 throughout).  A Date object is the record        *)
(* [valid, time]; the local-time accessors read it in the zone timeZone,   *)
(* the number of minutes local time is ahead of UTC.  A text is a sequence *)
(* of one-character strings, "<nian>", "<yue>", "<ri>" standing for the    *)
(* three CJK date characters.                                              *)
(***************************************************************************)
msPerDay == 24 * 60

InvalidDateObject == [valid |-> FALSE, time |-> 0]
DateOf(time)      == [valid |-> TRUE, time |-> time]

\* day number of a calendar date of the proleptic Gregorian calendar, 1970-01-01 = 0
daysFromCivil(y, m, d) ==
    LET yy  == IF m <= 2 THEN y - 1 ELSE y
        era == yy \div 400
        yoe == yy - era * 400
        mp  == IF m > 2 THEN m - 3 ELSE m + 9
        doy == (153 * mp + 2) \div 5 + d - 1
        doe == yoe * 365 + yoe \div 4 - yoe \div 100 + doy
    IN era * 146097 + doe - 719468

\* the calendar date of a day number
civilFromDays(z) ==
    LET zz  == z + 719468
        era == zz \div 146097
        doe == zz - era * 146097
        yoe == (doe - doe \div 1460 + doe \div 36524 - doe \div 146096) \div 365
        doy == doe - (365 * yoe + yoe \div 4 - yoe \div 100)
        mp  == (5 * doy + 2) \div 153
        d   == doy - (153 * mp + 2) \div 5 + 1
        m   == IF mp < 10 THEN mp + 3 ELSE mp - 9
    IN [year |-> yoe + era * 400 + (IF m <= 2 THEN 1 ELSE 0), month |-> m, day |-> d]

\* MakeDay: months beyond 0..11 carry into the year, days beyond the month carry on
MakeDay(year, month, day) ==
    daysFromCivil(year + month \div 12, (month % 12) + 1, 1) + day - 1

\* Date.UTC(year, month, day)
DateUTC(year, month, day) == MakeDay(year, month, day) * msPerDay

\* new Date(year, month, day, hours, minutes) in local time; years 0..99 mean 19xx
NewDate(year, month, day, hours, minutes) ==
    LET full == IF year \in 0..99 THEN 1900 + year ELSE year
    IN DateOf(MakeDay(full, month, day) * msPerDay + hours * 60 + minutes - timeZone)

LocalTime(d)   == d.time + timeZone
getFullYear(d) == civilFromDays(LocalTime(d) \div msPerDay).year
getMonth(d)    == civilFromDays(LocalTime(d) \div msPerDay).month - 1
getDate(d)     == civilFromDays(LocalTime(d) \div msPerDay).day
getHours(d)    == (LocalTime(d) % msPerDay) \div 60
getMinutes(d)  == LocalTime(d) % 60
getSeconds(d)  == 0

excelEpoch == DateUTC(1899, 11, 30)

dateToExcelSerial(d) ==
    LET utcDate == DateUTC(getFullYear(d), getMonth(d), getDate(d))
    IN JsNumber((utcDate - excelEpoch) \div msPerDay)

\* a Date object, or Null for a serial that is no finite number
excelSerialToDate(s) ==
    IF typeof(s) # "number" \/ notFinite(s) THEN Null
    ELSE DateOf(excelEpoch + s.num * msPerDay)

\* String(n) of a non-negative integer, and String(n).padStart(2, '0')
String(n)   == [i \in 1..Len(numberToString(n)) |-> Digits[numberToString(n)[i] + 1]]
padStart2(n) == IF Len(String(n)) < 2 THEN <<"0">> \o String(n) ELSE String(n)
lastTwo(str) == SubSeq(str, Max2(1, Len(str) - 1), Len(str))

charAt(str, i) == IF i \in 1..Len(str) THEN str[i] ELSE ""

\* length of the run of decimal digits that starts at position i
RECURSIVE digitRun(_, _)
digitRun(str, i) == IF isDigit(charAt(str, i)) THEN 1 + digitRun(str, i + 1) ELSE 0

RECURSIVE trimStart(_)
trimStart(str) == IF str # <<>> /\ Head(str) = " " THEN trimStart(Tail(str)) ELSE str
RECURSIVE trimEnd(_)
trimEnd(str) ==
    IF str # <<>> /\ str[Len(str)] = " " THEN trimEnd(SubSeq(str, 1, Len(str) - 1)) ELSE str
trim(str) == trimEnd(trimStart(str))

\* ^(\d{a})<s1>(\d{b})<s2>(\d{c})<tail>$ : the three numbers, or <<>> without a match
matchThree(str, la, s1, lb, s2, lc, tail) ==
    LET a  == digitRun(str, 1)
        i2 == a + 2
        b  == digitRun(str, i2)
        i3 == i2 + b + 1
        c  == digitRun(str, i3)
    IN IF /\ a \in la /\ charAt(str, a + 1) = s1
          /\ b \in lb /\ charAt(str, i2 + b) = s2
          /\ c \in lc /\ SubSeq(str, i3 + c, Len(str)) = tail
       THEN <<leadingInt(str, 1, 0), leadingInt(SubSeq(str, i2, Len(str)), 1, 0),
              leadingInt(SubSeq(str, i3, Len(str)), 1, 0)>>
       ELSE <<>>

\* new Date(text) for a text none of the four patterns reads: the ISO form
\* yyyy-mm-ddThh:mm is a local time, the other sample texts give an invalid date
nativeDate(str) ==
    LET ymd == matchThree(SubSeq(str, 1, 10), {4}, "-", {2}, "-", {2}, <<>>)
        hh  == leadingInt(SubSeq(str, 12, 13), 1, 0)
        mm  == leadingInt(SubSeq(str, 15, 16), 1, 0)
    IN IF /\ Len(str) = 16 /\ ymd # <<>> /\ str[11] = "T" /\ str[14] = ":"
          /\ digitRun(str, 12) = 2 /\ digitRun(str, 15) = 2
          /\ ymd[2] \in 1..12 /\ ymd[3] \in 1..31 /\ hh \in 0..23 /\ mm \in 0..59
          /\ civilFromDays(MakeDay(ymd[1], ymd[2] - 1, ymd[3])).month = ymd[2]
       THEN NewDate(ymd[1], ymd[2] - 1, ymd[3], hh, mm)
       ELSE InvalidDateObject

\* a Date object or Null
parseDateString(dateStr) ==
    IF dateStr = <<>> THEN Null
    ELSE LET trimmed == trim(dateStr)
             match1 == matchThree(trimmed, {4}, "/", {1, 2}, "/", {1, 2}, <<>>)
             match2 == matchThree(trimmed, {4}, "-", {1, 2}, "-", {1, 2}, <<>>)
             match3 == matchThree(trimmed, {4}, "<nian>", {1, 2}, "<yue>", {1, 2}, <<"<ri>">>)
             match4 == matchThree(trimmed, {1, 2}, "/", {1, 2}, "/", {4}, <<>>)
             native == nativeDate(trimmed)
         IN IF trimmed = <<>> THEN Null
            ELSE IF match1 # <<>> THEN NewDate(match1[1], match1[2] - 1, match1[3], 0, 0)
            ELSE IF match2 # <<>> THEN NewDate(match2[1], match2[2] - 1, match2[3], 0, 0)
            ELSE IF match3 # <<>> THEN NewDate(match3[1], match3[2] - 1, match3[3], 0, 0)
            ELSE IF match4 # <<>> THEN NewDate(match4[3], match4[1] - 1, match4[2], 0, 0)
            ELSE IF native.valid /\ getFullYear(native) >= 1900 /\ getFullYear(native) <= 2100
                 THEN native
            ELSE Null

\* /m+\/d+\/y+/i and /d+\/m+\/y+/i : a run of a, "/", a run of b, "/", a y
matchRuns(fmt, a, b) ==
    LET low == toLowerCase(fmt)
    IN \E i \in 1..Len(low) : \E j \in (i + 2)..Len(low) :
          /\ low[i] = a /\ low[i + 1] = "/"
          /\ \A k \in (i + 2)..j : low[k] = b
          /\ charAt(low, j + 1) = "/" /\ charAt(low, j + 2) = "y"

safeFormat(str) ==
    IF \/ str = <<>> \/ includes(str, <<"N", "a", "N">>)
       \/ includes(str, <<"u", "n", "d", "e", "f", "i", "n", "e", "d">>)
       \/ includes(str, <<"n", "u", "l", "l">>)
    THEN <<>> ELSE str

yyyy == <<"y", "y", "y", "y">>

\* d is a Date object or Null, fmt a pattern or None; the result is a text
formatDateByPattern(d, fmt) ==
    IF d = Null \/ ~d.valid THEN <<>>
    ELSE LET year  == getFullYear(d)
             month == getMonth(d) + 1
             day   == getDate(d)
             mm    == padStart2(getMinutes(d))
             ss    == padStart2(getSeconds(d))
             clock == <<" ">> \o String(getHours(d)) \o <<":">> \o mm \o <<":">> \o ss
             yy    == lastTwo(String(year))
             f     == IF fmt = None THEN <<>> ELSE fmt[1]
             has(sub) == includes(f, sub)
             plain(sep) == String(year) \o sep \o String(month) \o sep \o String(day)
             padded(sep) == String(year) \o sep \o padStart2(month) \o sep \o padStart2(day)
         IN IF year < 1900 \/ year > 2100 \/ month < 1 \/ month > 12 \/ day < 1 \/ day > 31
            THEN <<>>
            ELSE IF f = <<>> \/ f = General THEN safeFormat(plain(<<"/">>))
            ELSE IF has(yyyy) /\ has(<<"/">>)
            THEN IF has(<<"h", ":", "m", "m">>) \/ has(<<"h", "h", ":", "m", "m">>)
                 THEN IF has(<<"m", "m", "/", "d", "d">>)
                      THEN safeFormat(padded(<<"/">>) \o clock)
                      ELSE safeFormat(plain(<<"/">>) \o clock)
                 ELSE IF has(<<"m", "m">>) /\ has(<<"d", "d">>)
                      THEN safeFormat(padded(<<"/">>))
                      ELSE safeFormat(plain(<<"/">>))
            ELSE IF has(yyyy) /\ has(<<"-">>)
            THEN IF has(<<"m", "m">>) /\ has(<<"d", "d">>)
                 THEN safeFormat(padded(<<"-">>))
                 ELSE safeFormat(plain(<<"-">>))
            ELSE IF matchRuns(f, "m", "d")
            THEN IF has(<<"m", "m">>) /\ has(<<"d", "d">>)
                 THEN safeFormat(padStart2(month) \o <<"/">> \o padStart2(day) \o <<"/">> \o yy)
                 ELSE safeFormat(String(month) \o <<"/">> \o String(day) \o <<"/">> \o yy)
            ELSE IF matchRuns(f, "d", "m")
            THEN IF has(<<"m", "m">>) /\ has(<<"d", "d">>)
                 THEN safeFormat(padStart2(day) \o <<"/">> \o padStart2(month) \o <<"/">> \o yy)
                 ELSE safeFormat(String(day) \o <<"/">> \o String(month) \o <<"/">> \o yy)
            ELSE IF has(<<"<nian>">>) /\ has(<<"<yue>">>) /\ has(<<"<ri>">>)
            THEN safeFormat(String(year) \o <<"<nian>">> \o String(month) \o <<"<yue>">>
                            \o String(day) \o <<"<ri>">>)
            ELSE plain(<<"/">>)

(***************************************************************************)
(* The Date Engine run on sample inputs, in one time zone per behaviour.   *)
(***************************************************************************)
SampleZones  == {-720, -300, 0, 330, 480, 840}
SampleYears  == {1900, 1970, 2000, 2024, 2100}
SampleMonths == {0, 1, 2, 11}
SampleDays   == {1, 15, 28, 31}
SampleHours  == {0, 12, 23}
SampleSerials == {JsNumber(1), JsNumber(45000), JsNaN, JsInfinity, JsString("45000")}


FormatPatterns ==
    {None, Some(General), Some(<<"0", ".", "0", "0">>),
     Some(yyyy \o <<"/", "m", "/", "d">>), Some(yyyy \o <<"/", "m", "m", "/", "d", "d">>),
     Some(yyyy \o <<"/", "m", "/", "d", " ", "h", ":", "m", "m">>),
     Some(yyyy \o <<"/", "m", "m", "/", "d", "d", " ", "h", "h", ":", "m", "m">>),
     Some(yyyy \o <<"-", "m", "m", "-", "d", "d">>), Some(yyyy \o <<"-", "m", "-", "d">>),
     Some(<<"m", "/", "d", "/", "y", "y">>), Some(<<"m", "m", "/", "d", "d", "/", "y", "y">>),
     Some(<<"d", "/", "m", "/", "y", "y">>), Some(<<"D", "D", "/", "M", "M", "/", "Y", "Y">>),
     Some(yyyy \o <<"<nian>", "m", "<yue>", "d", "<ri>">>)}

\* the years, months and days written in the sample texts
TextYears  == {<<"2", "0", "2", "6">>, <<"1", "8", "0", "0">>, <<"0", "0", "5", "0">>}
TextMonths == {<<"1">>, <<"0", "1">>, <<"1", "2">>, <<"1", "3">>, <<"0">>, <<"2">>}
TextDays   == {<<"7">>, <<"0", "7">>, <<"3", "1">>, <<"4", "5">>, <<"0">>, <<"3", "0">>}
DateTexts ==
    {y \o <<"/">> \o m \o <<"/">> \o d : y \in TextYears, m \in TextMonths, d \in TextDays}
    \cup {y \o <<"-">> \o m \o <<"-">> \o d : y \in TextYears, m \in TextMonths, d \in TextDays}
    \cup {y \o <<"<nian>">> \o m \o <<"<yue>">> \o d \o <<"<ri>">> :
            y \in TextYears, m \in TextMonths, d \in TextDays}
    \cup {m \o <<"/">> \o d \o <<"/">> \o y : y \in TextYears, m \in TextMonths, d \in TextDays}
    \cup {<<>>, <<" ", " ">>, <<"a", "b", "c">>, <<" ", "2", "0", "2", "6", "/", "1", "/", "7", " ">>,
          <<"2", "0", "2", "6", "/", "1", "/", "7", "7", "7">>,
          <<"2", "0", "2", "4", "-", "0", "1", "-", "1", "5", "T", "1", "0", ":", "3", "0">>,
          <<"1", "8", "0", "0", "-", "0", "1", "-", "1", "5", "T", "1", "0", ":", "3", "0">>,
          <<"2", "0", "2", "4", "-", "1", "3", "-", "1", "5", "T", "1", "0", ":", "3", "0">>}

InitDate ==
    /\ timeZone \in SampleZones /\ date = NotRun /\ serial = NotRun /\ restored = NotRun
    /\ formatCall = NotRun /\ parseCall = NotRun
    /\ IdleChart /\ IdlePivot /\ IdleFmt /\ IdleColor /\ IdleMapper /\ IdleImages /\ IdleFacade

\* no call of the Date Engine has been made yet
noDateCall ==
    date = NotRun /\ serial = NotRun /\ formatCall = NotRun /\ parseCall = NotRun

\* dateToExcelSerial(new Date(y, m, d, h))
DateToExcelSerial ==
    /\ noDateCall
    /\ \E y \in SampleYears, m \in SampleMonths, d \in SampleDays, h \in SampleHours :
          /\ date' = NewDate(y, m, d, h, 0)
          /\ serial' = dateToExcelSerial(NewDate(y, m, d, h, 0))
    /\ restored' = NotRun
    /\ UNCHANGED <<timeZone, formatCall, parseCall, chartVars, pivotVars, fmtVars, colorVars,
                   mapperVars, importVars, imageVars, facadeVars>>

\* a serial number read from a cell (getCellValue, the Date and Number branches)
ReadSerial ==
    /\ noDateCall
    /\ serial' \in SampleSerials
    /\ date' = NotRun /\ restored' = NotRun
    /\ UNCHANGED <<timeZone, formatCall, parseCall, chartVars, pivotVars, fmtVars, colorVars,
                   mapperVars, importVars, imageVars, facadeVars>>

ExcelSerialToDate ==
    /\ serial # NotRun /\ restored = NotRun
    /\ restored' = excelSerialToDate(serial)
    /\ UNCHANGED <<timeZone, date, serial, formatCall, parseCall, chartVars, pivotVars, fmtVars,
                   colorVars, mapperVars, importVars, imageVars, facadeVars>>

FormatDateByPattern ==
    /\ noDateCall
    /\ \E d \in {Null, InvalidDateObject}
                \cup {NewDate(y, m, 15, h, mi) : y \in {1899, 1900, 2024, 2100, 2101},
                                                 m \in {0, 11}, h \in {0, 23}, mi \in {0, 5}},
          fmt \in FormatPatterns :
          formatCall' = [date |-> d, numFmt |-> fmt, ret |-> formatDateByPattern(d, fmt)]
    /\ UNCHANGED <<timeZone, date, serial, restored, parseCall, chartVars, pivotVars, fmtVars,
                   colorVars, mapperVars, importVars, imageVars, facadeVars>>

ParseDateString ==
    /\ noDateCall
    /\ \E dateStr \in DateTexts :
          parseCall' = [dateStr |-> dateStr, ret |-> parseDateString(dateStr)]
    /\ UNCHANGED <<timeZone, date, serial, restored, formatCall, chartVars, pivotVars, fmtVars,
                   colorVars, mapperVars, importVars, imageVars, facadeVars>>

NextDate ==
    \/ DateToExcelSerial \/ ReadSerial \/ ExcelSerialToDate
    \/ FormatDateByPattern \/ ParseDateString

SpecDate == InitDate /\ [][NextDate]_vars

(***************************************************************************)
(* Properties of the sheet mapper.                                         *)
(***************************************************************************)
\* the 0-based positions of the worksheets of the list, holes left out, in order
RECURSIVE sourceSheets(_, _)
sourceSheets(worksheets, j) ==
    IF j >= Len(worksheets) THEN <<>>
    ELSE (IF worksheets[j + 1] # Undefined THEN <<j>> ELSE <<>>) \o sourceSheets(worksheets, j + 1)

\* the worksheet of the sheet being mapped
currentSheet == workbook.worksheets[sheetIndex + 1]

\* the populated cells the walk of the current sheet has visited
visited == {currentSheet.cells[i] : i \in 1..(cellIndex - 1)}

\* the cell walk and the merge walk of the current sheet are over
sheetMapped ==
    /\ pc = "sheet"
    /\ cellIndex > Len(currentSheet.cells)
    /\ mergeIndex > Len(currentSheet.merges)

hasEntry(cd, r, c) == r \in DOMAIN cd /\ c \in DOMAIN cd[r]

\* the positions that have an entry in cellData, as <<row, col>>
entries(cd) == UNION {{<<r, c>> : c \in DOMAIN cd[r]} : r \in DOMAIN cd}

\* C1: after an import, sheetOrder has one id for every worksheet of the source, the
\* i-th id names the record built from the i-th worksheet (also when the worksheet has
\* no cells), the keys of sheets are the ids of sheetOrder, and each record's id is its key
C1_SheetOrderMatchesSource ==
    pc = "done" =>
        LET data == importResult.workbookData
            src  == sourceSheets(workbook.worksheets, 0)
        IN /\ Len(data.sheetOrder) = Len(src)
           /\ \A i, j \in 1..Len(data.sheetOrder) : i # j => data.sheetOrder[i] # data.sheetOrder[j]
           /\ DOMAIN data.sheets = {data.sheetOrder[i] : i \in 1..Len(data.sheetOrder)}
           /\ \A k \in DOMAIN data.sheets : data.sheets[k].id = k
           /\ \A i \in 1..Len(src) :
                LET worksheet == workbook.worksheets[src[i] + 1]
                    sheet == data.sheets[data.sheetOrder[i]]
                IN /\ sheetIndexToIdMap[src[i]] = data.sheetOrder[i]
                   /\ worksheet.name # <<>> => sheet.name = worksheet.name
                   /\ worksheet.name = <<>> => sheet.name = <<"Sheet", Digits[src[i] + 2]>>
                   /\ worksheet.cells = <<>> => entries(sheet.cellData) = {}

\* a finished import of two worksheets, the first without cells and the second with one
C1_Witness ==
    /\ pc = "done"
    /\ Len(workbook.worksheets) = 2
    /\ Undefined \notin {workbook.worksheets[1], workbook.worksheets[2]}
    /\ workbook.worksheets[1].cells = <<>> /\ workbook.worksheets[2].cells # <<>>
    /\ Len(importResult.workbookData.sheetOrder) = 2

carriesContent(cellValue) ==
    \/ "v" \in DOMAIN cellValue
    \/ "f" \in DOMAIN cellValue
    \/ "s" \in DOMAIN cellValue /\ DOMAIN cellValue["s"] # {}

\* C2: in every state of the mapping and in every finished sheet, every entry of
\* cellData carries a value, a formula or a style
C2_NoEmptyEntry ==
    /\ \A p \in entries(cellData) : carriesContent(cellData[p[1]][p[2]])
    /\ univerWorkbook # NotRun =>
         \A k \in DOMAIN univerWorkbook.sheets :
            \A p \in entries(univerWorkbook.sheets[k].cellData) :
                carriesContent(univerWorkbook.sheets[k].cellData[p[1]][p[2]])

\* a sheet where merge-border propagation made an entry at a position that has no source
\* cell, next to entries of a value cell
C2_Witness ==
    /\ sheetMapped
    /\ \E p \in entries(cellData) :
          /\ getCell(currentSheet, p[1], p[2]) = NullCell
          /\ DOMAIN cellData[p[1]][p[2]] = {"s"}
    /\ \E p \in entries(cellData) : "v" \in DOMAIN cellData[p[1]][p[2]]

\* the formula cells of the walk that are mapped as formulas: with a formula text,
\* and not the marker of a cell-hosted image
formulaCells ==
    {e \in visited : e.cell.type = "Formula" /\ e.cell.formula.text # <<>> /\ ~isDispImg(e.cell)}

\* C3: the entry of a formula cell has the formula text with one leading "=", added only
\* when the source text has none, and the cached result, when there is one, as its value
C3_FormulaAndCachedResult ==
    pc = "sheet" =>
        \A e \in formulaCells :
            /\ hasEntry(cellData, e.row, e.col)
            /\ LET cellValue == cellData[e.row][e.col]
                   text == e.cell.formula.text
               IN /\ "f" \in DOMAIN cellValue
                  /\ cellValue["f"] = IF text[1] = "=" THEN text ELSE <<"=">> \o text
                  /\ cellValue["f"][1] = "=" /\ (Len(cellValue["f"]) > 1 => cellValue["f"][2] # "=")
                  /\ e.cell.result \notin {JsUndefined, JsNull} =>
                        "v" \in DOMAIN cellValue /\ cellValue["v"] = e.cell.result

\* the cell with text SUM(A1:A3) and cached result 42, mapped to =SUM(A1:A3) and 42
C3_Witness ==
    /\ pc = "sheet"
    /\ \E e \in formulaCells :
          /\ e.cell.formula.text = <<"SUM(A1:A3)">> /\ e.cell.result = JsNumber(42)
          /\ hasEntry(cellData, e.row, e.col)
          /\ cellData[e.row][e.col]["f"] = <<"=", "SUM(A1:A3)">>
          /\ cellData[e.row][e.col]["v"] = JsNumber(42)

\* C4: no entry of cellData has a value that is NaN or an infinite number
C4_NoNaNValue ==
    \A p \in entries(cellData) :
        "v" \in DOMAIN cellData[p[1]][p[2]] => ~notFinite(cellData[p[1]][p[2]]["v"])

valueTypeOf(kind) ==
    CASE kind = "string" -> 1 [] kind = "number" -> 2 [] kind = "boolean" -> 3 [] OTHER -> 0

\* C5: the value of an entry is a string, a number or a boolean; the type tag is there only
\* with a value and names the value's kind; a formula cell without cached result has the
\* formula text, a string, as its value
C5_ValueIsPrimitive ==
    \A p \in entries(cellData) :
        LET cellValue == cellData[p[1]][p[2]] IN
        /\ "v" \in DOMAIN cellValue => typeof(cellValue["v"]) \in {"string", "number", "boolean"}
        /\ "t" \in DOMAIN cellValue =>
              "v" \in DOMAIN cellValue /\ cellValue["t"] = valueTypeOf(typeof(cellValue["v"]))

\* the cells of the outer ring of a merge region, as <<row, col>>
perimeter(m) ==
    {p \in (m.startRow..m.endRow) \X (m.startColumn..m.endColumn) :
        p[1] \in {m.startRow, m.endRow} \/ p[2] \in {m.startColumn, m.endColumn}}

\* the cells of the region m that lie on its edge e
onEdge(m, e) ==
    {p \in (m.startRow..m.endRow) \X (m.startColumn..m.endColumn) :
        \/ e = "top" /\ p[1] = m.startRow
        \/ e = "bottom" /\ p[1] = m.endRow
        \/ e = "left" /\ p[2] = m.startColumn
        \/ e = "right" /\ p[2] = m.endColumn}

\* the border of the anchor cell of region m, Empty when it has none
anchorBorder(m) ==
    LET style == getCell(currentSheet, m.startRow, m.startColumn).style
    IN IF style.border # None THEN style.border[1] ELSE Empty

\* every cell on an edge where the anchor has a border carries that border
bordersPropagated ==
    sheetMapped =>
        \A i \in 1..Len(currentSheet.merges) :
            LET m == currentSheet.merges[i] IN
            \A e \in DOMAIN anchorBorder(m) :
                \A p \in onEdge(m, e) :
                    /\ hasEntry(cellData, p[1], p[2])
                    /\ "s" \in DOMAIN cellData[p[1]][p[2]]
                    /\ "bd" \in DOMAIN cellData[p[1]][p[2]]["s"]
                    /\ edgeKey(e) \in DOMAIN cellData[p[1]][p[2]]["s"]["bd"]
                    /\ cellData[p[1]][p[2]]["s"]["bd"][edgeKey(e)] =
                          convertSingleBorder(anchorBorder(m)[e])

sameKey(old, new, k) ==
    /\ k \in DOMAIN old <=> k \in DOMAIN new
    /\ k \in DOMAIN old => old[k] = new[k]

\* the handling of one merge region leaves every value and formula as it was and
\* changes nothing outside the region's perimeter
mergeKeepsContent ==
    MapMerge =>
        LET m == currentSheet.merges[mergeIndex] IN
        /\ entries(cellData) \subseteq entries(cellData')
        /\ \A p \in entries(cellData') :
              LET old == IF p \in entries(cellData) THEN cellData[p[1]][p[2]] ELSE Empty
                  new == cellData'[p[1]][p[2]]
              IN /\ sameKey(old, new, "v") /\ sameKey(old, new, "f") /\ sameKey(old, new, "t")
                 /\ p \notin perimeter(m) => p \in entries(cellData) /\ old = new

\* C6: after the mapping of a sheet every cell on an edge of a merge region's perimeter
\* carries the border the anchor cell has on that edge, also where no entry was before;
\* the propagation changes no value or formula and no cell outside the perimeter
C6_MergeBorders == []bordersPropagated /\ [][mergeKeepsContent]_vars

\* a region of three rows and columns whose anchor has a top border; the cell in the
\* middle of the top edge has no source cell and carries the border, the cell in the
\* middle of the region has no entry
C6_Witness ==
    /\ sheetMapped
    /\ Len(currentSheet.merges) > 0
    /\ currentSheet.merges[1] = region(0, 2, 0, 2)
    /\ "top" \in DOMAIN anchorBorder(currentSheet.merges[1])
    /\ getCell(currentSheet, 0, 1) = NullCell
    /\ hasEntry(cellData, 0, 1)
    /\ "t" \in DOMAIN cellData[0][1]["s"]["bd"]
    /\ ~hasEntry(cellData, 1, 1)

(***************************************************************************)
(* The package-level helpers, each run on one input of its sample set.     *)
(***************************************************************************)
InitChart == ranges \in RangeLists /\ dataRange = NotRun
                /\ IdlePivot /\ IdleFmt /\ IdleColor /\ IdleMapper /\ IdleDate /\ IdleImages /\ IdleFacade

MergeRanges ==
    /\ dataRange = NotRun
    /\ dataRange' = mergeChartDataRanges(ranges)
    /\ UNCHANGED <<ranges, pivotVars, fmtVars, colorVars, mapperVars, importVars, dateVars, imageVars, facadeVars>>

SpecChart == InitChart /\ [][MergeRanges]_vars

InitPivot == pivotTableXml \in PivotParts /\ pivotTable = NotRun
                /\ IdleChart /\ IdleFmt /\ IdleColor /\ IdleMapper /\ IdleDate /\ IdleImages /\ IdleFacade

ParsePivotTable ==
    /\ pivotTable = NotRun
    /\ pivotTable' = parsePivotTablePart(pivotTableXml, "pivot-1", "sheet-2", "Pivot",
                                         SamplePivotCacheMap, SampleNameToId)
    /\ UNCHANGED <<pivotTableXml, chartVars, fmtVars, colorVars, mapperVars, importVars, dateVars, imageVars, facadeVars>>

SpecPivot == InitPivot /\ [][ParsePivotTable]_vars

InitFmt == numFmt \in Patterns /\ formatResult = NotRun
              /\ IdleChart /\ IdlePivot /\ IdleColor /\ IdleMapper /\ IdleDate /\ IdleImages /\ IdleFacade

ConvertNumFormat ==
    /\ formatResult = NotRun
    /\ formatResult' = convertNumFormat(numFmt)
    /\ UNCHANGED <<numFmt, chartVars, pivotVars, colorVars, mapperVars, importVars, dateVars, imageVars, facadeVars>>

SpecFmt == InitFmt /\ [][ConvertNumFormat]_vars

InitColor == color \in Colors /\ resolved = NotRun
                /\ IdleChart /\ IdlePivot /\ IdleFmt /\ IdleMapper /\ IdleDate /\ IdleImages /\ IdleFacade

ParseColor ==
    /\ resolved = NotRun
    /\ resolved' = parseExcelColor(color)
    /\ UNCHANGED <<color, chartVars, pivotVars, fmtVars, mapperVars, importVars, dateVars, imageVars, facadeVars>>

SpecColor == InitColor /\ [][ParseColor]_vars

(***************************************************************************)
(* Properties of the package-level helpers.                                *)
(***************************************************************************)
\* the references parseExcelRange reads: a cell or a range of cells
isCellRange(ref) == ref.kind \in {"cell", "range"}

\* the column numbers (A = 1) and row numbers of the corners of a reference
cornerCols(ref) ==
    {colToNum1(ref.startCol)} \cup (IF ref.kind = "range" THEN {colToNum1(ref.endCol)} ELSE {})
cornerRows(ref) ==
    {parseInt(ref.startRow)} \cup (IF ref.kind = "range" THEN {parseInt(ref.endRow)} ELSE {})

least(S)    == CHOOSE x \in S : \A y \in S : x <= y
greatest(S) == CHOOSE x \in S : \A y \in S : x >= y

Orders(n) == {f \in [1..n -> 1..n] : \A i, j \in 1..n : i # j => f[i] # f[j]}

A1 == [kind |-> "range", sheet |-> "Sheet1", startCol |-> <<1>>, startRow |-> <<1>>,
       endCol |-> <<1>>, endRow |-> <<6>>]
B1 == [kind |-> "range", sheet |-> "Sheet1", startCol |-> <<2>>, startRow |-> <<1>>,
       endCol |-> <<4>>, endRow |-> <<6>>]

locationRow == IF pivotTableXml.location.form = "none" THEN 0
               ELSE parseInt(pivotTableXml.location.row) - 1

\* C8: with k page fields and a location that starts at 0-based row r, anchorCell.row and
\* occupiedRange.startRow are max(0, r - 2k), the column of the anchor and the end row and
\* the columns of the occupied range are those of the location
C8_PivotShift ==
    (pivotTable # NotRun /\ pivotTable # Null) =>
        LET loc == pivotTableXml.location
            k   == Len(pivotTableXml.pageFields)
            row == IF locationRow - 2 * k > 0 THEN locationRow - 2 * k ELSE 0
        IN /\ pivotTable.anchorCell.row = row
           /\ pivotTable.anchorCell.col = IF loc.form = "none" THEN 0 ELSE colToNum(loc.col)
           /\ loc.form # "range" => pivotTable.occupiedRange = Undefined
           /\ loc.form = "range" =>
                /\ pivotTable.occupiedRange.startRow = row
                /\ pivotTable.occupiedRange.startRow = pivotTable.anchorCell.row
                /\ pivotTable.occupiedRange.endRow = parseInt(loc.endRow) - 1
                /\ pivotTable.occupiedRange.startColumn = colToNum(loc.col)
                /\ pivotTable.occupiedRange.endColumn = colToNum(loc.endCol)

\* a location that starts at row 10 with two page fields: the anchor is at row 6
C8_Witness ==
    /\ pivotTable # NotRun /\ pivotTable # Null
    /\ pivotTableXml.location.form = "range"
    /\ locationRow = 10
    /\ Len(pivotTableXml.pageFields) = 2
    /\ pivotTable.anchorCell.row = 6
    /\ pivotTable.occupiedRange.startRow = 6

\* the positions of the decimal points of a pattern: a "." with a 0, # or ? next to it
decimalPoints(fmt) ==
    {i \in 1..(Len(fmt) - 1) : fmt[i] = "." /\ fmt[i + 1] \in {"0", "#", "?"}}

\* the length of the run of 0, # and ? that follows position i
digitsAfter(fmt, i) ==
    greatest({n \in 0..(Len(fmt) - i) : \A j \in 1..n : fmt[i + j] \in {"0", "#", "?"}})

contains(fmt, c) == \E i \in 1..Len(fmt) : fmt[i] = c

\* a flag that is set reads true, a flag that is not there reads as not true
isSet(object, key) == key \in DOMAIN object /\ object[key] = TRUE

\* C9: for a pattern other than the empty one and General, decimalPlaces is the number of
\* 0, # and ? that follow the decimal point (0 without one), hasThousandsSeparator is set
\* exactly when the pattern has a ",", isPercent exactly when it has a "%"
C9_NumberFormatFlags ==
    (formatResult # NotRun /\ numFmt # <<>> /\ numFmt # General) =>
        /\ formatResult # Undefined
        /\ formatResult["pattern"] = numFmt
        /\ formatResult["decimalPlaces"] =
              IF decimalPoints(numFmt) = {} THEN 0
              ELSE digitsAfter(numFmt, least(decimalPoints(numFmt)))
        /\ isSet(formatResult, "hasThousandsSeparator") <=> contains(numFmt, ",")
        /\ isSet(formatResult, "isPercent") <=> contains(numFmt, "%")
        /\ \A key \in {"hasThousandsSeparator", "isPercent"} :
              key \in DOMAIN formatResult => formatResult[key] = TRUE

\* the pattern #,##0.00: two decimal places, thousands separator, no percent
C9_Witness ==
    /\ numFmt = <<"#", ",", "#", "#", "0", ".", "0", "0">>
    /\ formatResult # NotRun
    /\ formatResult["decimalPlaces"] = 2
    /\ isSet(formatResult, "hasThousandsSeparator")
    /\ ~isSet(formatResult, "isPercent")

\* a colour object that is resolved through the theme table
isThemeColor(c) ==
    /\ c # Null /\ c.argb = None
    /\ c.theme # None /\ c.theme[1] \in DOMAIN EXCEL_THEME_COLORS

\* the three channels of six hex digits
channels(d) == <<d[1] * 16 + d[2], d[3] * 16 + d[4], d[5] * 16 + d[6]>>

\* v is x / TintDen rounded to the nearest integer, halves upward
isRounded(v, x) == 2 * TintDen * v <= 2 * x + TintDen /\ 2 * x + TintDen < 2 * TintDen * (v + 1)

\* C10: a theme colour with tint t (a multiple of 1 / TintDen): for 0 < t <= 1 every
\* channel is round(c + (255 - c) * t) and not below c, for -1 <= t < 0 it is
\* round(c * (1 + t)) and not above c, without tint or with tint 0 the base colour is
\* returned; every channel is within 0..255
C10_TintBlend ==
    (resolved # NotRun /\ isThemeColor(color)) =>
        LET base == channels(EXCEL_THEME_COLORS[color.theme[1]])
            out  == channels(resolved.digits)
            t    == IF color.tint = None THEN 0 ELSE color.tint[1]
        IN /\ resolved.form = "color"
           /\ \A i \in 1..3 : out[i] \in 0..255
           /\ t = 0 => resolved.digits = EXCEL_THEME_COLORS[color.theme[1]]
           /\ (0 < t /\ t <= TintDen) =>
                 \A i \in 1..3 : /\ isRounded(out[i], base[i] * TintDen + (255 - base[i]) * t)
                                 /\ out[i] >= base[i]
           /\ (0 - TintDen <= t /\ t < 0) =>
                 \A i \in 1..3 : /\ isRounded(out[i], base[i] * (TintDen + t))
                                 /\ out[i] <= base[i]

\* a theme colour made lighter: some channel has moved up, none down
C10_Witness ==
    /\ resolved # NotRun /\ isThemeColor(color)
    /\ color.tint # None /\ color.tint[1] > 0 /\ color.tint[1] < TintDen
    /\ \E i \in 1..3 :
          channels(resolved.digits)[i] > channels(EXCEL_THEME_COLORS[color.theme[1]])[i]
    /\ \E i \in 1..3 :
          channels(EXCEL_THEME_COLORS[color.theme[1]])[i] \notin {0, 255}

(***************************************************************************)
(* Properties of the Date Engine.                                          *)
(***************************************************************************)
calendarDate(d) == <<getFullYear(d), getMonth(d) + 1, getDate(d)>>

\* C11: for a date d between 1900-01-01 and 2100-12-31, in every time zone,
\* excelSerialToDate(dateToExcelSerial(d)) is a date that the local-time accessors
\* read with the year, month and day of d.
C11_RoundTrip ==
    (date # NotRun /\ restored # NotRun /\ getFullYear(date) \in 1900..2100)
        => /\ restored # Null
           /\ calendarDate(restored) = calendarDate(date)

\* the month and day a text holds when one of the four patterns reads it, else <<>>
writtenMonthDay(dateStr) ==
    LET trimmed == trim(dateStr)
        ymd(sep1, sep2, tail) == matchThree(trimmed, {4}, sep1, {1, 2}, sep2, {1, 2}, tail)
        mdy == matchThree(trimmed, {1, 2}, "/", {1, 2}, "/", {4}, <<>>)
    IN IF ymd("/", "/", <<>>) # <<>> THEN SubSeq(ymd("/", "/", <<>>), 2, 3)
       ELSE IF ymd("-", "-", <<>>) # <<>> THEN SubSeq(ymd("-", "-", <<>>), 2, 3)
       ELSE IF ymd("<nian>", "<yue>", <<"<ri>">>) # <<>>
            THEN SubSeq(ymd("<nian>", "<yue>", <<"<ri>">>), 2, 3)
       ELSE IF mdy # <<>> THEN SubSeq(mdy, 1, 2)
       ELSE <<>>

formatIsSafe ==
    formatCall # NotRun =>
        /\ ~includes(formatCall.ret, <<"N", "a", "N">>)
        /\ (formatCall.date = Null \/ ~formatCall.date.valid
                \/ getFullYear(formatCall.date) \notin 1900..2100)
              => formatCall.ret = <<>>

parseRejectsOutOfRange ==
    parseCall # NotRun =>
        LET md == writtenMonthDay(parseCall.dateStr)
        IN (md # <<>> /\ (md[1] \notin 1..12 \/ md[2] \notin 1..31)) => parseCall.ret = Null

\* C12: formatDateByPattern returns no text containing NaN and returns the empty text
\* for an invalid date or a year outside 1900..2100; parseDateString returns null
\* whenever the month it parsed is outside 1..12 or the day outside 1..31.
C12_DateEngineValidates == formatIsSafe /\ parseRejectsOutOfRange

(***************************************************************************)
(* Properties of the import as a whole.                                    *)
(***************************************************************************)
seqSet(s) == {s[i] : i \in 1..Len(s)}

\* the result of importExcelWithImages, as opposed to that of importCsv
isExcelResult(r) == "sheetOrder" \in DOMAIN r.workbookData

\* the names the registry of the call maps: those of the sheets of the snapshot
sheetNames(r) == {r.workbookData.sheets[k].name : k \in DOMAIN r.workbookData.sheets}

\* sourceRange.sheetId of a pivot table is set
sourceResolved(r, p) == p.sourceRange.sheetName \in sheetNames(r)

\* every generated id that occurs in a result
idsOfResult(r) ==
    IF ~isExcelResult(r) THEN {}
    ELSE LET data == r.workbookData IN
         {data.id} \cup seqSet(data.sheetOrder) \cup DOMAIN data.sheets
         \cup {data.sheets[k].id : k \in DOMAIN data.sheets}
         \cup {img.id : img \in seqSet(r.images)} \cup {img.sheetId : img \in seqSet(r.images)}
         \cup DOMAIN r.conditionalFormats \cup DOMAIN r.filters \cup DOMAIN r.sorts
         \cup DOMAIN r.charts
         \cup UNION {UNION {{c.chartId, c.sheetId} : c \in seqSet(r.charts[k])} :
                       k \in DOMAIN r.charts}
         \cup UNION {{p.pivotTableId, p.sheetId}
                     \cup (IF sourceResolved(r, p) THEN {p.sourceRange.sheetId} ELSE {}) :
                       p \in seqSet(r.pivotTables)}

idNumbers(r) == {id[2] : id \in idsOfResult(r)}

\* the renaming of the generated ids of a result: the k-th smallest number becomes k
renameId(id, N) == <<id[1], Cardinality({m \in N : m <= id[2]})>>

\* an object keyed by ids, with its keys renamed and its values mapped
rekey(f, N, Op(_)) ==
    [k \in {renameId(j, N) : j \in DOMAIN f} |->
        Op(f[CHOOSE j \in DOMAIN f : renameId(j, N) = k])]

\* a result with every generated id renamed, and nothing else changed
canonical(r) ==
    IF ~isExcelResult(r) THEN r
    ELSE LET N == idNumbers(r)
             data == r.workbookData
         IN [workbookData |->
               [id |-> renameId(data.id, N),
                sheetOrder |-> [i \in 1..Len(data.sheetOrder) |-> renameId(data.sheetOrder[i], N)],
                sheets |-> rekey(data.sheets, N, LAMBDA sh : [sh EXCEPT !.id = renameId(@, N)])],
             images |-> [i \in 1..Len(r.images) |->
                           [r.images[i] EXCEPT !.id = renameId(@, N),
                                               !.sheetId = renameId(@, N)]],
             conditionalFormats |-> rekey(r.conditionalFormats, N, LAMBDA v : v),
             filters |-> rekey(r.filters, N, LAMBDA v : v),
             sorts |-> rekey(r.sorts, N, LAMBDA v : v),
             charts |-> rekey(r.charts, N,
                              LAMBDA cs : [i \in 1..Len(cs) |->
                                             [cs[i] EXCEPT !.chartId = renameId(@, N),
                                                           !.sheetId = renameId(@, N)]]),
             pivotTables |-> [i \in 1..Len(r.pivotTables) |->
                                LET p == r.pivotTables[i] IN
                                [p EXCEPT !.pivotTableId = renameId(@, N),
                                          !.sheetId = renameId(@, N),
                                          !.sourceRange.sheetId =
                                              IF sourceResolved(r, p) THEN renameId(@, N)
                                              ELSE @]]]

\* two calls ended alike: both resolved, with results that differ in the generated
\* ids only, or both rejected with the same error
sameOutcome(a, b) ==
    /\ a.pc = b.pc
    /\ a.pc \in {"done", "csv"} => canonical(a.importResult) = canonical(b.importResult)
    /\ a.pc = "failed" => a.rejection = b.rejection

\* the file of the reference has been imported a second time and the other call
\* has not begun
importedTwice ==
    /\ reference # NotRun /\ suspended # NotRun
    /\ callOf(fileName, includeImages, workbook, archive) = reference.call
    /\ pc \in settled
    /\ suspended.pc = "importFile"

C14_IdsResolveToSheets ==
    pc = "done" =>
        LET r == importResult
            order == seqSet(r.workbookData.sheetOrder)
        IN /\ DOMAIN r.conditionalFormats \subseteq order
           /\ DOMAIN r.filters \subseteq order
           /\ DOMAIN r.sorts \subseteq order
           /\ DOMAIN r.charts \subseteq order
           /\ \A img \in seqSet(r.images) : img.sheetId \in order
           /\ \A p \in seqSet(r.pivotTables) :
                /\ p.sheetId \in order
                /\ p.sourceRange.sheetName \in DOMAIN sheetNameToIdMap
                      => p.sourceRange.sheetId \in order
           /\ \A k \in DOMAIN r.charts : \A c \in seqSet(r.charts[k]) :
                /\ c.sheetId = k
                /\ c.sheetName \in DOMAIN sheetNameToIdMap
                /\ sheetNameToIdMap[c.sheetName] = c.sheetId

\* a finished import with charts on two sheets
C14_Witness ==
    /\ pc = "done"
    /\ Cardinality(DOMAIN importResult.charts) = 2
    /\ \A k \in DOMAIN importResult.charts : Len(importResult.charts[k]) > 0
\* the drawing of a sheet of workbook.xml and its relationships, None when a hop of
\* the chain workbook -> sheet -> drawing is absent
chainOf(zip, entry) ==
    IF ~mapHas(rIdToPathMapOf(zip), entry.value) THEN None
    ELSE LET sheetRels == zipFile(zip, relsPathOf(mapGet(rIdToPathMapOf(zip), entry.value))) IN
         IF sheetRels = None THEN None
         ELSE IF sheetRels[1].unreadable THEN None
         ELSE IF sheetRels[1].drawing = None THEN None
         ELSE LET drawing == zipFile(zip, sheetRels[1].drawing[1])
                  drawingRels == zipFile(zip, relsPathOf(sheetRels[1].drawing[1]))
              IN IF drawing = None \/ drawingRels = None THEN None
                 ELSE IF drawing[1].unreadable \/ drawingRels[1].unreadable THEN None
                 ELSE Some([anchors |-> drawing[1].anchors, targets |-> drawingRels[1].targets])

\* the anchor refers to a chart through a relationship of the drawing
refersToChart(chain, anchor) ==
    anchor.chartRef # None /\ mapHas(chain.targets, anchor.chartRef[1])

\* the chart of the anchor can be processed: its part is missing (the chart is built
\* from the anchor alone) or can be read and is not the chart of a pivot table
wellFormed(zip, chain, anchor) ==
    /\ refersToChart(chain, anchor)
    /\ LET chartFile == zipFile(zip, mapGet(chain.targets, anchor.chartRef[1])) IN
       IF chartFile = None THEN TRUE
       ELSE IF chartFile[1].unreadable THEN FALSE
       ELSE ~chartFile[1].pivotSource

\* the number of charts the result holds for a sheet
chartsOn(r, sheetId) == IF sheetId \in DOMAIN r.charts THEN Len(r.charts[sheetId]) ELSE 0

\* every well-formed chart of every sheet of workbook.xml is in the result
chartsSurvive ==
    (pc = "done" /\ archive.workbookXml # None /\ archive.workbookRels # None) =>
        \A i \in 1..Len(sheetRIdMapOf(archive)) :
            LET entry == sheetRIdMapOf(archive)[i]
                chain == chainOf(archive, entry)
            IN (entry.key \in DOMAIN sheetNameToIdMap /\ chain # None) =>
                  chartsOn(importResult, sheetNameToIdMap[entry.key])
                    = Cardinality({k \in 1..Len(chain[1].anchors) :
                                      wellFormed(archive, chain[1], chain[1].anchors[k])})

\* the pivot table parts of a sheet that can be read and whose cache is known
goodPivots(zip, entry) ==
    IF ~mapHas(rIdToPathMapOf(zip), entry.value) THEN {}
    ELSE LET sheetRels == zipFile(zip, relsPathOf(mapGet(rIdToPathMapOf(zip), entry.value))) IN
         IF sheetRels = None THEN {}
         ELSE IF sheetRels[1].unreadable THEN {}
         ELSE {k \in 1..Len(sheetRels[1].pivotTables) :
                 LET part == zipFile(zip, sheetRels[1].pivotTables[k]) IN
                 IF part = None THEN FALSE
                 ELSE IF part[1].unreadable THEN FALSE
                 ELSE part[1].xml.cacheId \in DOMAIN cacheMap}

\* every pivot table that can be read is in the result
pivotsSurvive ==
    (pc = "done" /\ archive.workbookXml # None /\ archive.workbookRels # None) =>
        \A i \in 1..Len(sheetRIdMapOf(archive)) :
            LET entry == sheetRIdMapOf(archive)[i] IN
            entry.key \in DOMAIN sheetNameToIdMap =>
               Cardinality({k \in 1..Len(importResult.pivotTables) :
                              importResult.pivotTables[k].sheetName = entry.key})
                 = Cardinality(goodPivots(archive, entry))

\* every sort state that can be read and has a condition is in the result
sortsSurvive ==
    pc = "done" =>
        \A i \in 1..Len(sheetEntries(archive)) :
            LET entry == sheetEntries(archive)[i] IN
            ((entry.path.n - 1) \in DOMAIN sheetIndexToIdMap /\ ~entry.part.unreadable) =>
               (entry.part.sortState # None
                  => (Len(sortConditions(entry.part.sortState[1].conditions, 1, 0)) > 0
                        => sheetIndexToIdMap[entry.path.n - 1] \in DOMAIN importResult.sorts))

\* an import whose file loads is never rejected
importCompletes ==
    (fileExtOf(fileName) \in {<<"x", "l", "s", "x">>, <<"x", "l", "s">>} /\ archive.loads)
        => pc # "failed"

\* C15: when processing one chart raises an error the import still completes, only that
\* chart is skipped and every other well-formed chart is in the result, those after it
\* in the same drawing and those of other sheets included; the same holds for one
\* failing pivot table and for one failing sheet's sort state
C15_FailureSkipsOneItem ==
    importCompletes /\ chartsSurvive /\ pivotsSurvive /\ sortsSurvive
\* the call was given a file that cannot be imported at all
fatalInput ==
    \/ fileExtOf(fileName) = <<>>
    \/ fileExtOf(fileName) \notin SupportedExtensions
    \/ ~archive.loads

\* nothing of a result exists: no snapshot, no sheet in the registries, no collector entry
nothingMapped ==
    /\ importResult = NotRun /\ univerWorkbook = NotRun
    /\ sheetNameToIdMap = Empty /\ sheetIndexToIdMap = Empty /\ sheetIndex = 0
    /\ allImages = <<>> /\ allConditionalFormats = Empty /\ allFilters = Empty

\* no package-level extractor has been started or has produced anything
noExtractorRun ==
    /\ started = <<>>
    /\ allCharts = Empty /\ pivotTables = <<>> /\ allSorts = Empty
    /\ charts = Empty /\ sorts = Empty /\ cacheMap = Empty

\* C16: when the top-level document cannot be loaded or the extension is not one of
\* xlsx/xls/csv, importFile rejects with a single error and returns no partial result:
\* no sheet is mapped and no chart, pivot or sort extractor is run
C16_FatalFailureRejects ==
    /\ fatalInput =>
          /\ pc \in {"importFile", "load", "failed"}
          /\ nothingMapped /\ noExtractorRun
    /\ pc = "failed" =>
          /\ fatalInput
          /\ rejection \in {[error |-> "cannot load the Excel file"],
                            [error |-> "csv import failed"],
                            [error |-> "unsupported format", fileExt |-> fileExtOf(fileName)]}
    /\ pc # "failed" => rejection = NotRun

C16_Witness ==
    /\ pc = "failed" /\ rejection = [error |-> "cannot load the Excel file"]
    /\ Len(workbook.worksheets) = 2
    /\ idCounter = 0
\* C17: when importFile is called with includeImages = false the images list of the
\* result is empty for every workbook, workbooks with cell-embedded image formulas
\* (DISPIMG) included
C17_NoImagesWhenDisabled ==
    (pc = "done" /\ ~includeImages) => importResult.images = <<>>
\* no read of the chart extractor rejects: every part but a chart part can be read and
\* no anchor of a complete chain refers to a chart part that cannot
readsSucceed(zip) ==
    /\ \A i \in 1..Len(zip.entries) :
          zip.entries[i].path.dir # "charts" => ~zip.entries[i].part.unreadable
    /\ \A i \in 1..Len(sheetRIdMapOf(zip)) :
          LET chain == chainOf(zip, sheetRIdMapOf(zip)[i]) IN
          chain # None =>
             \A k \in 1..Len(chain[1].anchors) :
                refersToChart(chain[1], chain[1].anchors[k]) =>
                   LET chartFile == zipFile(zip, mapGet(chain[1].targets,
                                                        chain[1].anchors[k].chartRef[1]))
                   IN IF chartFile = None THEN TRUE ELSE ~chartFile[1].unreadable

\* the sheet of workbook.xml has an absent hop in its chain
hopAbsent(zip, i) == chainOf(zip, sheetRIdMapOf(zip)[i]) = None

\* C20: an absent hop in the relationship chain of one sheet (no sheet relationship
\* file, no drawing relationship, missing drawing part or drawing relationship file, an
\* anchor without chart reference or with an unresolved relationship id) skips only
\* that sheet's or anchor's extraction: the import does not fail and the charts of
\* every other sheet, and of every other anchor, are extracted
C20_AbsentHopSkipsOnlyThat ==
    /\ importCompletes
    /\ (pc = "done" /\ archive.workbookXml # None /\ archive.workbookRels # None
          /\ readsSucceed(archive)) =>
          \A i \in 1..Len(sheetRIdMapOf(archive)) :
             LET entry == sheetRIdMapOf(archive)[i] IN
             entry.key \in DOMAIN sheetNameToIdMap =>
                chartsOn(importResult, sheetNameToIdMap[entry.key])
                  = IF hopAbsent(archive, i) THEN 0
                    ELSE LET chain == chainOf(archive, entry)[1] IN
                         Cardinality({k \in 1..Len(chain.anchors) :
                                         wellFormed(archive, chain, chain.anchors[k])})

C20_Witness ==
    /\ pc = "done" /\ archive.workbookXml # None /\ archive.workbookRels # None
    /\ readsSucceed(archive)
    /\ Len(sheetRIdMapOf(archive)) = 2
    /\ sheetRIdMapOf(archive)[1].key \in DOMAIN sheetNameToIdMap
    /\ hopAbsent(archive, 1) /\ ~hopAbsent(archive, 2)
    /\ chartsOn(importResult, sheetNameToIdMap[sheetRIdMapOf(archive)[2].key]) = 1
\* the calls in flight: the running one and the one that waits
callStates == {locals} \cup (IF suspended = NotRun THEN {} ELSE {suspended})

\* every id of the call's result was issued to the call
ownIds(l) == l.pc = "done" => idNumbers(l.importResult) \subseteq l.issued

\* the registries and collectors of the call hold ids issued to the call only
ownRegistry(l) ==
    /\ \A n \in DOMAIN l.sheetNameToIdMap : l.sheetNameToIdMap[n][2] \in l.issued
    /\ \A n \in DOMAIN l.sheetIndexToIdMap : l.sheetIndexToIdMap[n][2] \in l.issued
    /\ \A k \in DOMAIN l.allCharts \cup DOMAIN l.charts \cup DOMAIN l.allSorts
                \cup DOMAIN l.sorts \cup DOMAIN l.allConditionalFormats
                \cup DOMAIN l.allFilters : k[2] \in l.issued
    /\ \A i \in 1..Len(l.allImages) :
          l.allImages[i].id[2] \in l.issued /\ l.allImages[i].sheetId[2] \in l.issued
    /\ \A i \in 1..Len(l.pivotTables) :
          l.pivotTables[i].pivotTableId[2] \in l.issued
          /\ l.pivotTables[i].sheetId[2] \in l.issued

\* the call has settled as the import of the same file did on its own
asAlone(l) ==
    (l.pc \in settled
       /\ callOf(l.fileName, l.includeImages, l.workbook, l.archive) = reference.call)
      => sameOutcome(reference, l)

\* C18: of two import calls whose steps interleave at their suspension points neither
\* observes or modifies the other's registry or output collections: every id in a
\* call's result was issued by that call, and each call's result is the same, up to
\* generated ids, as when it runs alone
C18_CallsAreIsolated ==
    suspended # NotRun =>
        \A l \in callStates : ownIds(l) /\ ownRegistry(l) /\ asAlone(l)

\* both calls are done after steps of the one ran between steps of the other, and
\* both have extracted package items
C18_Witness ==
    /\ suspended # NotRun /\ pc = "done" /\ suspended.pc = "done"
    /\ \E a, b \in locals.issued : \E c \in suspended.issued : a < c /\ c < b
    /\ \E a, b \in suspended.issued : \E c \in locals.issued : a < c /\ c < b
    /\ DOMAIN importResult.charts # {}
    /\ suspended.importResult.pivotTables # <<>>
(***************************************************************************)
(* addImagesToWorkbook and insertImagesAfterImport.  An image of the list  *)
(* is [type, sheetFound, rangeFound, inserted]: its type (None when it has *)
(* none), whether the workbook has a sheet of its sheetId and a range at   *)
(* its cell, and whether the insertion call gives a result; a call that    *)
(* rejects and one that gives a falsy result both end in the catch.        *)
(* options.onProgress is "absent", a callback that "returns" or one that   *)
(* "throws".                                                               *)
(***************************************************************************)
MaxImages == 3

imageOf(type, sheetFound, rangeFound, inserted) ==
    [type |-> type, sheetFound |-> sheetFound, rangeFound |-> rangeFound,
     inserted |-> inserted]

SampleImages ==
    {imageOf(Some("cell"), TRUE, TRUE, TRUE), imageOf(None, TRUE, TRUE, TRUE),
     imageOf(Some("floating"), FALSE, TRUE, TRUE), imageOf(Some("cell"), TRUE, TRUE, FALSE),
     imageOf(Some("cell"), TRUE, FALSE, TRUE)}

ImageInputs == UNION {[1..n -> SampleImages] : n \in 0..MaxImages}

InsertOptions ==
    [continueOnError : {None, Some(TRUE), Some(FALSE)},
     onProgress : {"absent", "returns", "throws"}]

\* options.continueOnError ?? true
continueOnErrorOf(opts) ==
    IF opts.continueOnError = None THEN TRUE ELSE opts.continueOnError[1]

\* the body of the try up to result.success++ runs without a throw
insertionSucceeds(image) ==
    /\ image.sheetFound
    /\ LET imageType == IF image.type = None THEN "floating" ELSE image.type[1] IN
       IF imageType = "cell" THEN image.rangeFound /\ image.inserted
       ELSE image.inserted

InitImages ==
    /\ importedImages \in ImageInputs /\ options \in InsertOptions /\ fWorkbook \in BOOLEAN
    /\ imageIndex = 0 /\ insertResult = NotRun /\ progressCalls = <<>> /\ attempted = <<>>
    /\ insertPc = "call"
    /\ IdleChart /\ IdlePivot /\ IdleFmt /\ IdleColor /\ IdleMapper /\ IdleDate /\ IdleFacade

imageInputs == <<importedImages, options, fWorkbook>>
notImages == <<chartVars, pivotVars, fmtVars, colorVars, mapperVars, importVars, dateVars,
               facadeVars>>

\* if (!images || images.length === 0) return { success: 0, failed: 0, errors: [] }
NoImages ==
    /\ insertPc = "call"
    /\ Len(importedImages) = 0
    /\ insertResult' = [success |-> 0, failed |-> 0, errors |-> <<>>]
    /\ insertPc' = "returned"
    /\ UNCHANGED <<imageInputs, imageIndex, progressCalls, attempted, notImages>>

\* if (!fWorkbook) throw
NoActiveWorkbook ==
    /\ insertPc = "call"
    /\ Len(importedImages) > 0 /\ ~fWorkbook
    /\ insertResult' = [success |-> 0, failed |-> 0, errors |-> <<>>]
    /\ insertPc' = "rejected"
    /\ UNCHANGED <<imageInputs, imageIndex, progressCalls, attempted, notImages>>

\* the for loop is entered
BeginInsert ==
    /\ insertPc = "call"
    /\ Len(importedImages) > 0 /\ fWorkbook
    /\ insertResult' = [success |-> 0, failed |-> 0, errors |-> <<>>]
    /\ insertPc' = "loop"
    /\ UNCHANGED <<imageInputs, imageIndex, progressCalls, attempted, notImages>>

\* the catch block: result.failed++, result.errors.push, throw unless continueOnError
caught(r, index) ==
    [r EXCEPT !.failed = @ + 1, !.errors = Append(@, [image |-> index])]

\* one round of the for loop, its try and its catch
InsertImage ==
    /\ insertPc = "loop"
    /\ imageIndex < Len(importedImages)
    /\ LET image == importedImages[imageIndex + 1]
           succeeded == insertionSucceeds(image)
           called == succeeded /\ options.onProgress # "absent"
           thrown == ~succeeded \/ options.onProgress = "throws"
           counted == IF succeeded THEN [insertResult EXCEPT !.success = @ + 1]
                      ELSE insertResult
       IN /\ attempted' = Append(attempted, imageIndex + 1)
          /\ progressCalls' = IF called
                              THEN Append(progressCalls,
                                          [current |-> imageIndex + 1,
                                           total |-> Len(importedImages)])
                              ELSE progressCalls
          /\ insertResult' = IF thrown THEN caught(counted, imageIndex + 1) ELSE counted
          /\ IF thrown /\ ~continueOnErrorOf(options)
             THEN insertPc' = "rejected" /\ imageIndex' = imageIndex
             ELSE insertPc' = "loop" /\ imageIndex' = imageIndex + 1
    /\ UNCHANGED <<imageInputs, notImages>>

\* return result
ReturnResult ==
    /\ insertPc = "loop"
    /\ imageIndex = Len(importedImages)
    /\ insertPc' = "returned"
    /\ UNCHANGED <<imageInputs, imageIndex, insertResult, progressCalls, attempted, notImages>>

NextImages == NoImages \/ NoActiveWorkbook \/ BeginInsert \/ InsertImage \/ ReturnResult

SpecImages == InitImages /\ [][NextImages]_vars

\* the images were tried in list order, each at most once
inListOrder == \A j \in 1..Len(attempted) : attempted[j] = j

\* the indices of the images whose insertion fails
failing == {j \in 1..Len(importedImages) : ~insertionSucceeds(importedImages[j])}

\* with continueOnError the call returns with every image tried and counted once
countsAddUp ==
    (insertPc = "returned" /\ continueOnErrorOf(options)) =>
        /\ Len(attempted) = Len(importedImages)
        /\ insertResult.success + insertResult.failed = Len(importedImages)
        /\ Len(insertResult.errors) = insertResult.failed

\* without continueOnError the call rejects at the first failing image
stopsAtFirstFailure ==
    (~continueOnErrorOf(options) /\ insertPc \in {"returned", "rejected"} /\ fWorkbook) =>
        IF failing = {} THEN insertPc = "returned"
        ELSE /\ insertPc = "rejected"
             /\ Len(attempted) = CHOOSE j \in failing : \A k \in failing : j <= k

\* onProgress is called after a successful insertion only, with growing current values
progressAfterSuccess ==
    \A j \in 1..Len(progressCalls) :
        /\ progressCalls[j].current \in 1..Len(importedImages)
        /\ progressCalls[j].current <= progressCalls[j].total
        /\ insertionSucceeds(importedImages[progressCalls[j].current])
        /\ j > 1 => progressCalls[j - 1].current < progressCalls[j].current

\* C19: addImagesToWorkbook processes the images in list order; with continueOnError
\* (the default) every image is attempted exactly once and on return success + failed
\* is the number of images and errors has failed entries; without it the call rejects
\* at the first failing image and no later image is attempted; onProgress is invoked
\* only after a successful insertion, with strictly increasing current values not
\* beyond total
C19_ImagesInsertedInOrder ==
    inListOrder /\ countsAddUp /\ stopsAtFirstFailure /\ progressAfterSuccess
\* the mapper has finished: every worksheet of the workbook has its registry entries
registryComplete ==
    /\ sheetIndex = Len(workbook.worksheets)
    /\ \A i \in 1..Len(workbook.worksheets) :
          workbook.worksheets[i] # Undefined =>
             /\ (i - 1) \in DOMAIN sheetIndexToIdMap
             /\ nameOrDefault(workbook.worksheets[i], i - 1) \in DOMAIN sheetNameToIdMap
    /\ \A k \in DOMAIN sheetIndexToIdMap :
          \E j \in 1..Len(univerWorkbook.sheetOrder) :
             univerWorkbook.sheetOrder[j] = sheetIndexToIdMap[k]

\* the extractors started so far: charts, then pivots, then sorts, each once
startedInOrder ==
    \E n \in 0..3 : started = SubSeq(<<"charts", "pivots", "sorts">>, 1, n)

\* C21: in every Excel import no package-level extractor (chart, pivot, sort) starts
\* before the mapper has finished all sheets, so the registry is complete and is never
\* modified once the first extractor reads it; each of the three extractors runs
\* exactly once per import
C21_ExtractorsAfterMapper ==
    /\ [](started # <<>> => registryComplete)
    /\ [][started # <<>> => UNCHANGED <<sheetNameToIdMap, sheetIndexToIdMap>>]_vars
    /\ [](startedInOrder)
    /\ [](pc \in {"return", "done"} => started = <<"charts", "pivots", "sorts">>)

C21_Witness ==
    /\ pc = "done" /\ started = <<"charts", "pivots", "sorts">>
    /\ Len(workbook.worksheets) = 2 /\ workbook.worksheets[1] = Undefined
    /\ DOMAIN sheetIndexToIdMap = {1}
\* the conditions the sort state of a sheet part stands for, in document order
conditionsOf(sortState) ==
    [i \in 1..Len(sortState.conditions) |->
        [column    |-> colToNum(sortState.conditions[i].col) - colToNum(sortState.startCol),
         ascending |-> ~sortState.conditions[i].descending]]

\* the sheet parts whose sort state the import has read: those of a sheet of the
\* workbook, up to the first part that cannot be read
sortsRead ==
    {i \in 1..Len(sheetEntries(archive)) :
        /\ \A j \in 1..i : ~sheetEntries(archive)[j].part.unreadable
        /\ (sheetEntries(archive)[i].path.n - 1) \in DOMAIN sheetIndexToIdMap
        /\ sheetEntries(archive)[i].part.sortState # None
        /\ sheetEntries(archive)[i].part.sortState[1].conditions # <<>>}

\* the columns of the recorded conditions are the offsets within the sort range
sortColumnsRelative ==
    pc = "done" =>
       \A i \in sortsRead :
          LET entry == sheetEntries(archive)[i]
              sheetId == sheetIndexToIdMap[entry.path.n - 1]
              want == conditionsOf(entry.part.sortState[1])
          IN /\ sheetId \in DOMAIN importResult.sorts
             /\ Len(importResult.sorts[sheetId].conditions) = Len(want)
             /\ \A k \in 1..Len(want) :
                   importResult.sorts[sheetId].conditions[k].column = want[k].column

\* C22: each condition sub-element of a sort state yields one condition, in document
\* order, whose column is the 0-based index of the condition range's leading column
\* minus that of the sort range's starting column, and whose ascending flag is false
\* exactly when the condition carries descending="1", wherever the attribute stands
C22_SortConditions ==
    pc = "done" =>
       \A i \in sortsRead :
          LET entry == sheetEntries(archive)[i]
              sheetId == sheetIndexToIdMap[entry.path.n - 1]
          IN /\ sheetId \in DOMAIN importResult.sorts
             /\ importResult.sorts[sheetId].conditions = conditionsOf(entry.part.sortState[1])
\* the ids of the sheets whose part, by workbook.xml and its relationships, is at path
ownersOf(zip, path) ==
    {sheetNameToIdMap[sheetRIdMapOf(zip)[i].key] :
        i \in {j \in 1..Len(sheetRIdMapOf(zip)) :
                 /\ sheetRIdMapOf(zip)[j].key \in DOMAIN sheetNameToIdMap
                 /\ mapHas(rIdToPathMapOf(zip), sheetRIdMapOf(zip)[j].value)
                 /\ mapGet(rIdToPathMapOf(zip), sheetRIdMapOf(zip)[j].value) = path}}

\* the sheet parts with a sort state that has conditions
sortedParts(zip) ==
    {i \in 1..Len(sheetEntries(zip)) :
        /\ ~sheetEntries(zip)[i].part.unreadable
        /\ sheetEntries(zip)[i].part.sortState # None
        /\ sheetEntries(zip)[i].part.sortState[1].conditions # <<>>}

\* every part of the package can be read
allReadable(zip) == \A i \in 1..Len(zip.entries) : ~zip.entries[i].part.unreadable

\* C23: a sort state found in the XML part of a sheet is recorded under the id the
\* mapper issued for that same sheet, also when the numbering of the part files
\* (sheetN.xml) does not follow the workbook's sheet order; it is never recorded under
\* another sheet's id
C23_SortUnderOwnSheet ==
    (pc = "done" /\ archive.workbookXml # None /\ archive.workbookRels # None) =>
       /\ \A k \in DOMAIN importResult.sorts :
             \E i \in sortedParts(archive) :
                /\ k \in ownersOf(archive, sheetEntries(archive)[i].path)
                /\ importResult.sorts[k].range = sheetEntries(archive)[i].part.sortState[1].ref
       /\ allReadable(archive) =>
             \A i \in sortedParts(archive) :
                \A k \in ownersOf(archive, sheetEntries(archive)[i].path) :
                   /\ k \in DOMAIN importResult.sorts
                   /\ importResult.sorts[k].range
                        = sheetEntries(archive)[i].part.sortState[1].ref
\* the chart parts of the anchors of a drawing that yield a chart, in the order of the
\* anchors; None stands for a part that is missing from the package
RECURSIVE sourceParts(_, _, _)
sourceParts(zip, chain, k) ==
    IF k > Len(chain.anchors) THEN <<>>
    ELSE (IF wellFormed(zip, chain, chain.anchors[k])
          THEN <<zipFile(zip, mapGet(chain.targets, chain.anchors[k].chartRef[1]))>>
          ELSE <<>>)
         \o sourceParts(zip, chain, k + 1)

\* the charts of the result with the chart part each was made from
chartsWithSource ==
    IF pc # "done" \/ archive.workbookXml = None \/ archive.workbookRels = None
       \/ ~readsSucceed(archive)
    THEN {}
    ELSE UNION {LET entry == sheetRIdMapOf(archive)[i]
                    chain == chainOf(archive, entry)[1]
                    parts == sourceParts(archive, chain, 1)
                    list  == importResult.charts[sheetNameToIdMap[entry.key]]
                IN {[chart |-> list[k], part |-> parts[k]] : k \in 1..Len(parts)} :
                  i \in {j \in 1..Len(sheetRIdMapOf(archive)) :
                           /\ sheetRIdMapOf(archive)[j].key \in DOMAIN sheetNameToIdMap
                           /\ ~hopAbsent(archive, j)
                           /\ sheetNameToIdMap[sheetRIdMapOf(archive)[j].key]
                                \in DOMAIN importResult.charts}}

\* ImportedChart['chartType']
ChartTypes ==
    {"column", "bar", "line", "area", "pie", "doughnut", "scatter", "radar", "bubble",
     "combo", "stackedBar", "percentStackedBar", "stackedArea", "percentStackedArea",
     "wordCloud", "funnel", "relationship", "waterfall", "treemap", "sankey", "heatmap",
     "boxPlot", "unknown"}

\* the part has one of the family elements the classification looks for
recognized(part) == \E i \in 1..Len(ChartFamilies) : ChartFamilies[i] \in part.families

\* chartType is a value of the closed set
chartTypeInSet ==
    pc = "done" =>
       \A k \in DOMAIN importResult.charts :
          \A i \in 1..Len(importResult.charts[k]) :
             importResult.charts[k][i].chartType \in ChartTypes

\* C24: a chart whose XML contains none of the recognized family elements, or whose
\* chart part is missing from the archive, is emitted with chartType 'unknown';
\* chartType is always one value of the fixed closed set
C24_UnknownChartType ==
    /\ chartTypeInSet
    /\ \A c \in chartsWithSource :
          (IF c.part = None THEN TRUE ELSE ~recognized(c.part[1]))
             => c.chart.chartType = "unknown"
\* the first family of the fixed order that the part contains
firstFamily(part) ==
    ChartFamilies[CHOOSE i \in 1..Len(ChartFamilies) :
                     /\ ChartFamilies[i] \in part.families
                     /\ \A j \in 1..(i - 1) : ChartFamilies[j] \notin part.families]

\* the type a family stands for
typeOfFamily ==
    [barChart |-> "column", lineChart |-> "line", pieChart |-> "pie",
     doughnutChart |-> "doughnut", areaChart |-> "area", scatterChart |-> "scatter",
     radarChart |-> "radar", bubbleChart |-> "bubble", ofPieChart |-> "pie",
     surfaceChart |-> "scatter", stockChart |-> "combo"]

\* the refinement of a family by grouping
stackedName(base, grouping) ==
    IF grouping = Some("stacked") THEN "stacked" \o base
    ELSE IF grouping = Some("percentStacked") THEN "percentStacked" \o base
    ELSE base

\* the type of a part with a recognized family: a bar-family chart is bar, stackedBar
\* or percentStackedBar when its direction is 'bar' and column otherwise
classified(part) ==
    LET family == firstFamily(part) IN
    IF family = "barChart"
    THEN IF part.barDir = Some("bar")
         THEN (IF stackedName("Bar", part.grouping) = "Bar" THEN "bar"
               ELSE stackedName("Bar", part.grouping))
         ELSE "column"
    ELSE IF family = "areaChart"
    THEN (IF stackedName("Area", part.grouping) = "Area" THEN "area"
          ELSE stackedName("Area", part.grouping))
    ELSE typeOfFamily[family]

\* every sheet has one chart for each anchor whose part is not a pivot chart, and none
\* for a part that signals a pivot source
noPivotCharts ==
    (pc = "done" /\ archive.workbookXml # None /\ archive.workbookRels # None
       /\ readsSucceed(archive)) =>
       \A i \in 1..Len(sheetRIdMapOf(archive)) :
          LET entry == sheetRIdMapOf(archive)[i] IN
          (entry.key \in DOMAIN sheetNameToIdMap /\ ~hopAbsent(archive, i)) =>
             chartsOn(importResult, sheetNameToIdMap[entry.key])
               = Len(sourceParts(archive, chainOf(archive, entry)[1], 1))

\* C25: a chart whose XML signals a pivot source produces no chart; otherwise the first
\* family element present in the order bar, line, pie, doughnut, area, scatter, radar,
\* bubble, of-pie, surface, stock decides the type (of-pie gives pie, surface scatter,
\* stock combo); a bar-family chart with direction 'bar' is bar, stackedBar or
\* percentStackedBar by its grouping, and column with any other direction
C25_ChartClassification ==
    /\ noPivotCharts
    /\ \A c \in chartsWithSource :
          IF c.part = None THEN TRUE
          ELSE recognized(c.part[1]) => c.chart.chartType = classified(c.part[1])

C25_Witness ==
    \E c \in chartsWithSource :
       /\ c.part # None
       /\ c.part[1].families = {"barChart", "lineChart"}
       /\ c.part[1].barDir = Some("bar") /\ c.part[1].grouping = Some("percentStacked")
       /\ c.chart.chartType = "percentStackedBar"
\* a value of dataRange that is one A1-style rectangle: column letters and a row
\* number for both corners, and no sheet name
isRectangle(value) ==
    /\ value.form = "a1"
    /\ Len(value.startCol) >= 1 /\ Len(value.endCol) >= 1
    /\ \A i \in 1..Len(value.startCol) : value.startCol[i] \in 1..26
    /\ \A i \in 1..Len(value.endCol) : value.endCol[i] \in 1..26
    /\ Len(value.startRow) >= 1 /\ Len(value.endRow) >= 1

\* C26: every emitted chart's dataRange, when non-empty, is a single A1-style rectangle
\* without sheet-name qualifier, for every set of formula references collected from
\* the chart XML, the case where none of them can be parsed as a cell range (e.g.
\* whole-column references) included
C26_DataRangeIsRectangle ==
    dataRange # NotRun => (dataRange.form = "empty" \/ isRectangle(dataRange))
\* the row and column indices a sheet record uses
usedRows(sheet) ==
    DOMAIN sheet.cellData \cup (IF sheet.rowData = None THEN {} ELSE DOMAIN sheet.rowData[1])
usedColumns(sheet) ==
    UNION {DOMAIN sheet.cellData[r] : r \in DOMAIN sheet.cellData}
    \cup (IF sheet.columnData = None THEN {} ELSE DOMAIN sheet.columnData[1])
countsAtLeastDefault(sheet) ==
    sheet.rowCount >= DEFAULT_ROW_COUNT /\ sheet.columnCount >= DEFAULT_COLUMN_COUNT
rowsWithinCount(sheet) == \A r \in usedRows(sheet) : r < sheet.rowCount
columnsWithinCount(sheet) == \A c \in usedColumns(sheet) : c < sheet.columnCount

\* C27: every sheet the mapper produced has rowCount >= 1000 and columnCount >= 26,
\* every row index of its cellData and rowData is below rowCount and every column
\* index of its cellData and columnData is below columnCount.
C27_IndicesWithinCounts ==
    univerWorkbook # NotRun =>
        \A k \in DOMAIN univerWorkbook.sheets :
            /\ countsAtLeastDefault(univerWorkbook.sheets[k])
            /\ rowsWithinCount(univerWorkbook.sheets[k])
            /\ columnsWithinCount(univerWorkbook.sheets[k])

\* the DISPIMG cells of the sheets mapped so far, each with the id of its sheet
dispImgCells ==
    UNION {{[sheetId |-> sheetIndexToIdMap[i], row |-> workbook.worksheets[i + 1].cells[n].row,
             col |-> workbook.worksheets[i + 1].cells[n].col] :
                n \in {m \in 1..Len(workbook.worksheets[i + 1].cells) :
                          isDispImg(workbook.worksheets[i + 1].cells[m].cell)}} :
           i \in {j \in DOMAIN sheetIndexToIdMap : j < sheetIndex}}
cellImagesAt(d) ==
    {n \in 1..Len(allImages) :
        /\ allImages[n].type = "cell"
        /\ allImages[n].sheetId = d.sheetId
        /\ allImages[n].position = [column |-> d.col, row |-> d.row,
                                    columnOffset |-> 0, rowOffset |-> 0]
        /\ allImages[n].size = [width |-> 100, height |-> 100]}
noContentAt(d) ==
    LET cd == univerWorkbook.sheets[d.sheetId].cellData IN
    d.row \in DOMAIN cd /\ d.col \in DOMAIN cd[d.row] =>
        DOMAIN cd[d.row][d.col] \cap {"v", "f", "t", "p"} = {}

\* C28: every DISPIMG formula cell of a mapped sheet leaves no value or formula
\* in cellData at its position and has exactly one image of type 'cell' at its
\* row and column, with zero offsets and size 100x100.
C28_DispImgBecomesCellImage ==
    workbook # Null /\ univerWorkbook # NotRun =>
        \A d \in dispImgCells : noContentAt(d) /\ Cardinality(cellImagesAt(d)) = 1

(***************************************************************************)
(* clipRangeToBounds.  The range text is "" (EmptyText), or the record     *)
(* [form, startCol, startRow, end, lower]: form "a1" for a text the        *)
(* regular expression ^([A-Z]+)(\d+)(:([A-Z]+)(\d+))?$ matches, "cols" for *)
(* a whole-column text (A:B) and "absolute" for a text with $ signs, which *)
(* it does not match; startCol the letters and startRow the digits of the  *)
(* first corner, end None or Some([col, row]), lower whether the letters   *)
(* are written in lower case.  The result is Null or a record of form      *)
(* "a1" written by numToCol and `${row}`.                                  *)
(***************************************************************************)
MaxClipRow == 6     \* largest row number written in a range text
EmptyText == [form |-> "empty"]
ClipCols == {<<1>>, <<2>>, <<3>>, <<4>>, <<1, 1>>}      \* A, B, C, D, AA
ClipRows == {<<n>> : n \in 0..MaxClipRow} \cup {<<0, 5>>}
ClipCorners == {[col |-> c, row |-> r] : c \in ClipCols, r \in ClipRows}
rangeText(form, start, end, lower) ==
    [form |-> form, startCol |-> start.col, startRow |-> start.row, end |-> end,
     lower |-> lower]
RangeTexts ==
    {EmptyText}
    \cup {rangeText("a1", start, None, lower) : start \in ClipCorners, lower \in BOOLEAN}
    \cup {rangeText("a1", start, Some(end), FALSE) : start \in ClipCorners, end \in ClipCorners}
    \cup {rangeText(form, [col |-> <<1>>, row |-> <<1>>],
                    Some([col |-> <<2>>, row |-> <<3>>]), FALSE) : form \in {"cols", "absolute"}}
\* getMaxRows() || 1000 and getMaxColumns() || 1000 are positive
SheetRows == {1, 3, 5}
SheetCols == {1, 3, 26}

\* colToNum1Based: A=1, ..., Z=26, AA=27
colToNum1Based(col) == colToNum1(col)

clipRangeToBounds(range, rows, cols) ==
    IF range = EmptyText THEN Null
    ELSE IF range.form # "a1" THEN Null
    ELSE LET startColStr == range.startCol       \* toUpperCase: the letters
             endColStr == IF range.end = None THEN startColStr ELSE range.end[1].col
             startRow == Max2(1, Min2(parseInt(range.startRow), rows))
             endRow == Max2(1, Min2(parseInt(IF range.end = None THEN range.startRow
                                             ELSE range.end[1].row), rows))
             startCol == Max2(1, Min2(colToNum1Based(startColStr), cols))
             endCol == Max2(1, Min2(colToNum1Based(endColStr), cols))
         IN IF startRow > endRow \/ startCol > endCol THEN Null
            ELSE IF startRow = endRow /\ startCol = endCol
            THEN rangeText("a1", [col |-> numToCol(startCol), row |-> numberToString(startRow)],
                           None, FALSE)
            ELSE rangeText("a1", [col |-> numToCol(startCol), row |-> numberToString(startRow)],
                           Some([col |-> numToCol(endCol), row |-> numberToString(endRow)]),
                           FALSE)

InitClip ==
    /\ rangeStr \in RangeTexts /\ maxRows \in SheetRows /\ maxCols \in SheetCols
    /\ clippedRange = NotRun
    /\ IdleChart /\ IdlePivot /\ IdleFmt /\ IdleColor /\ IdleMapper /\ IdleDate /\ IdleImages
    /\ IdleHost
ClipRange ==
    /\ clippedRange = NotRun
    /\ clippedRange' = clipRangeToBounds(rangeStr, maxRows, maxCols)
    /\ UNCHANGED <<rangeStr, maxRows, maxCols, chartVars, pivotVars, fmtVars, colorVars,
                   mapperVars, importVars, dateVars, imageVars, hostVars>>
NextClip == ClipRange
SpecClip == InitClip /\ [][NextClip]_vars

\* the rectangle a range text of form "a1" denotes, 1-based
rectangleOf(range) ==
    [startRow |-> parseInt(range.startRow),
     startCol |-> colToNum1(range.startCol),
     endRow |-> parseInt(IF range.end = None THEN range.startRow ELSE range.end[1].row),
     endCol |-> colToNum1(IF range.end = None THEN range.startCol ELSE range.end[1].col)]
\* an A1 range: rows from 1, the first corner not after the second
validRange(range) ==
    /\ range # EmptyText /\ range.form = "a1"
    /\ LET r == rectangleOf(range) IN
       1 <= r.startRow /\ r.startRow <= r.endRow /\ r.startCol <= r.endCol
outsideBounds(range) ==
    rectangleOf(range).startRow > maxRows \/ rectangleOf(range).startCol > maxCols
clippedWithin ==
    /\ clippedRange # Null
    /\ LET c == rectangleOf(clippedRange)
           r == rectangleOf(rangeStr)
       IN /\ 1 <= c.startRow /\ c.startRow <= c.endRow /\ c.endRow <= maxRows
          /\ 1 <= c.startCol /\ c.startCol <= c.endCol /\ c.endCol <= maxCols
          /\ r.startRow <= c.startRow /\ c.endRow <= r.endRow
          /\ r.startCol <= c.startCol /\ c.endCol <= r.endCol

\* C29: clipRangeToBounds returns null for a text that is no A1 range and for a
\* range that starts below the last row or right of the last column of the sheet;
\* for every other range it returns a range inside the bounds, with the first
\* corner not after the second, that is contained in the range it was given.
C29_ClipRangeToBounds ==
    clippedRange # NotRun =>
        IF ~validRange(rangeStr) \/ outsideBounds(rangeStr) THEN clippedRange = Null
        ELSE clippedWithin

(***************************************************************************)
(* addPivotTablesToWorkbook.  A pivot table of the argument is the record  *)
(* [outcome, fields, failAt]: outcome is what comes of its creation,       *)
(*   "skipped"  a sheet or the enums are not found: continue               *)
(*   "throws"   addPivotTable rejects: continue                            *)
(*   "null"     addPivotTable resolves with null: counted, continue        *)
(*   "object"   addPivotTable resolves with the table                      *)
(* fields are its four lists of field names, and failAt is the number of   *)
(* the addField call the host rejects, 0 for none.  The id of a table is   *)
(* its position in the list.  The host may fire PivotTableRendered for a   *)
(* table it creates at any time after addPivotTable was called for it.     *)
(***************************************************************************)
MaxTables == 2      \* longest list of pivot tables
MaxFires  == 2      \* how often the host fires the event for one table
HostFieldLists ==
    {[rowFields |-> <<"region">>, colFields |-> <<"year">>, valueFields |-> <<"sales">>,
      filterFields |-> <<>>],
     [rowFields |-> <<>>, colFields |-> <<>>, valueFields |-> <<>>, filterFields |-> <<>>],
     [rowFields |-> <<"region", "city">>, colFields |-> <<>>, valueFields |-> <<"sales">>,
      filterFields |-> <<"year">>]}
NoFields == [rowFields |-> <<>>, colFields |-> <<>>, valueFields |-> <<>>, filterFields |-> <<>>]
HostTables ==
    {[outcome |-> o, fields |-> NoFields, failAt |-> 0] : o \in {"skipped", "throws", "null"}}
    \cup {[outcome |-> "object", fields |-> f, failAt |-> k] : f \in HostFieldLists, k \in {0, 2}}
TableLists == UNION {[1..n -> HostTables] : n \in 1..MaxTables}

\* the calls of addField one loop of the listener makes: field, area, index i
areaFields(fieldNames, area) ==
    [i \in 1..Len(fieldNames) |-> [field |-> fieldNames[i], area |-> area, index |-> i - 1]]
\* the four loops in the order of the code
allFields(fields) ==
    areaFields(fields.rowFields, "Row") \o areaFields(fields.colFields, "Column")
    \o areaFields(fields.valueFields, "Value") \o areaFields(fields.filterFields, "Filter")

InitHost ==
    /\ importedPivotTables \in TableLists
    /\ addPc = "loop" /\ tableIndex = 1 /\ fieldIndex = 1 /\ addedFields = <<>>
    /\ requested = {}
    /\ rendered = [t \in DOMAIN importedPivotTables |-> 0]
    /\ disposeCalls = [t \in DOMAIN importedPivotTables |-> 0]
    /\ timeoutArmed = FALSE /\ successCount = 0
    /\ IdleChart /\ IdlePivot /\ IdleFmt /\ IdleColor /\ IdleMapper /\ IdleDate /\ IdleImages
    /\ IdleClip
notHost == <<chartVars, pivotVars, fmtVars, colorVars, mapperVars, importVars, dateVars,
             imageVars, clipVars>>

\* the head of the loop body up to the call of addPivotTable
RequestCreate ==
    /\ addPc = "loop"
    /\ tableIndex <= Len(importedPivotTables)
    /\ IF importedPivotTables[tableIndex].outcome = "skipped"
       THEN tableIndex' = tableIndex + 1 /\ UNCHANGED <<addPc, requested>>
       ELSE /\ addPc' = "create"
            /\ requested' = requested \cup {tableIndex}
            /\ UNCHANGED tableIndex
    /\ UNCHANGED <<importedPivotTables, fieldIndex, addedFields, rendered, disposeCalls,
                   timeoutArmed, successCount, notHost>>

\* await addPivotTable settles; for a table the executor of the promise runs: the
\* timer is set and the listener registered
CreateSettles ==
    /\ addPc = "create"
    /\ LET outcome == importedPivotTables[tableIndex].outcome IN
       /\ IF outcome = "object"
          THEN addPc' = "listen" /\ timeoutArmed' = TRUE /\ UNCHANGED tableIndex
          ELSE addPc' = "loop" /\ tableIndex' = tableIndex + 1 /\ UNCHANGED timeoutArmed
       /\ successCount' = IF outcome = "null" THEN successCount + 1 ELSE successCount
    /\ UNCHANGED <<importedPivotTables, fieldIndex, addedFields, requested, rendered,
                   disposeCalls, notHost>>

\* the host fires PivotTableRendered with the id of a table it was asked to create.
\* The listener of the pending promise hears it; when the id is that of its
\* table it clears the timer, disposes itself and starts to add the fields.
FireRendered ==
    \E id \in requested :
        /\ importedPivotTables[id].outcome = "object"
        /\ rendered[id] < MaxFires
        /\ rendered' = [rendered EXCEPT ![id] = @ + 1]
        /\ IF addPc = "listen" /\ id = tableIndex
           THEN /\ timeoutArmed' = FALSE
                /\ disposeCalls' = [disposeCalls EXCEPT ![id] = @ + 1]
                /\ fieldIndex' = 1
                /\ IF allFields(importedPivotTables[id].fields) = <<>>
                   THEN /\ addPc' = "loop" /\ tableIndex' = tableIndex + 1
                        /\ successCount' = successCount + 1
                   ELSE addPc' = "adding" /\ UNCHANGED <<tableIndex, successCount>>
           ELSE UNCHANGED <<addPc, tableIndex, fieldIndex, disposeCalls, timeoutArmed,
                            successCount>>
        /\ UNCHANGED <<importedPivotTables, addedFields, requested, notHost>>

\* one await fPivotTable.addField settles.  A rejection is caught in the listener:
\* clearTimeout, dispose, reject; the loop's catch then goes on to the next table.
AddField ==
    /\ addPc = "adding"
    /\ LET table == importedPivotTables[tableIndex]
           calls == allFields(table.fields)
       IN IF table.failAt = fieldIndex
          THEN /\ disposeCalls' = [disposeCalls EXCEPT ![tableIndex] = @ + 1]
               /\ addPc' = "loop" /\ tableIndex' = tableIndex + 1
               /\ UNCHANGED <<fieldIndex, addedFields, successCount>>
          ELSE /\ addedFields' =
                     Append(addedFields, [table |-> tableIndex, call |-> calls[fieldIndex]])
               /\ fieldIndex' = fieldIndex + 1
               /\ IF fieldIndex = Len(calls)
                  THEN /\ addPc' = "loop" /\ tableIndex' = tableIndex + 1
                       /\ successCount' = successCount + 1
                  ELSE UNCHANGED <<addPc, tableIndex, successCount>>
               /\ UNCHANGED disposeCalls
    /\ UNCHANGED <<importedPivotTables, requested, rendered, timeoutArmed, notHost>>

\* the timer of the pending promise fires: dispose, reject; the loop's catch goes on
Timeout ==
    /\ addPc = "listen" /\ timeoutArmed
    /\ timeoutArmed' = FALSE
    /\ disposeCalls' = [disposeCalls EXCEPT ![tableIndex] = @ + 1]
    /\ addPc' = "loop" /\ tableIndex' = tableIndex + 1
    /\ UNCHANGED <<importedPivotTables, fieldIndex, addedFields, requested, rendered,
                   successCount, notHost>>

ReturnAdd ==
    /\ addPc = "loop"
    /\ tableIndex > Len(importedPivotTables)
    /\ addPc' = "returned"
    /\ UNCHANGED <<importedPivotTables, tableIndex, fieldIndex, addedFields, requested,
                   rendered, disposeCalls, timeoutArmed, successCount, notHost>>

NextHost == RequestCreate \/ CreateSettles \/ FireRendered \/ AddField \/ Timeout \/ ReturnAdd
SpecHost == InitHost /\ [][NextHost]_vars
\* the code runs on, the host settles the promises it gave and the timer fires;
\* nothing makes the host fire the event
SpecHostFair ==
    /\ SpecHost
    /\ WF_vars(RequestCreate) /\ WF_vars(CreateSettles) /\ WF_vars(AddField)
    /\ WF_vars(Timeout) /\ WF_vars(ReturnAdd)

\* the fields added for one table so far
addedFor(t) == SelectSeq(addedFields, LAMBDA a : a.table = t)
callsOf(t) == [i \in 1..Len(addedFor(t)) |-> addedFor(t)[i].call]
allAdded(t) == callsOf(t) = allFields(importedPivotTables[t].fields)
created(t) == t \in DOMAIN importedPivotTables /\ importedPivotTables[t].outcome = "object"
\* the promise of the table is promiseSettled: the loop is past it
promiseSettled(t) == tableIndex > t \/ addPc = "returned"
fieldsInOrder ==
    \A t \in DOMAIN importedPivotTables :
        /\ Len(callsOf(t)) <= Len(allFields(importedPivotTables[t].fields))
        /\ callsOf(t) = SubSeq(allFields(importedPivotTables[t].fields), 1, Len(callsOf(t)))
fieldsAfterEvent ==
    \A t \in DOMAIN importedPivotTables : addedFor(t) # <<>> => rendered[t] > 0
disposedOnce ==
    \A t \in DOMAIN importedPivotTables : created(t) /\ promiseSettled(t) => disposeCalls[t] = 1
\* the host created the table, fired the event for it and rejects no addField
renderedUnfailing(t) ==
    IF created(t) THEN importedPivotTables[t].failAt = 0 /\ rendered[t] > 0 ELSE FALSE
fieldsComplete(t) == IF created(t) THEN allAdded(t) ELSE FALSE
renderedLeadsToFields ==
    \A t \in 1..MaxTables :
        [](renderedUnfailing(t) => <>(fieldsComplete(t)))
allProcessed ==
    <>(addPc = "returned" /\ \A t \in DOMAIN importedPivotTables :
          importedPivotTables[t].outcome # "skipped" => t \in requested)

\* C30: for every pivot table the host creates and fires the rendered event for,
\* at any time after addPivotTable was called for it, all fields are eventually
\* added, in the order row, column, value, filter fields, each at its list index,
\* and only after the event; the listener of a table is disposed exactly once
\* however its promise settles; and a timeout or failure on one table does not
\* keep the loop from the following tables.
C30_FieldsAfterRendered ==
    /\ [](fieldsInOrder /\ fieldsAfterEvent /\ disposedOnce)
    /\ renderedLeadsToFields
    /\ allProcessed
====
